---------------------------- MODULE Spec2Model ----------------------------
(***************************************************************************)
(* A model of the glTF loader of bevy_mod_gltf_patched (src/src/loader.rs): *)
(* the node-hierarchy resolver, the accessor/vertex-attribute conversion    *)
(* and the load_gltf pipeline with its label table.                         *)
(***************************************************************************)
EXTENDS Integers, Sequences, FiniteSets, TLC

(***************************************************************************)
(* Bounds of the model.                                                     *)
(***************************************************************************)
\* the largest number of nodes in a node list
MaxNodes == 3
\* the longest declared child-index list of one node
MaxChildren == 2
\* the largest total number of child references in one node list
MaxRefs == 3

\* Option::None of an index
None == -1

Min(a, b) == IF a < b THEN a ELSE b

Range(s) == {s[k] : k \in DOMAIN s}

\* HashMap::insert
Put(m, k, v) == [x \in DOMAIN m \cup {k} |-> IF x = k THEN v ELSE m[x]]

\* HashMap::remove
Remove(m, k) == [x \in DOMAIN m \ {k} |-> m[x]]

EmptyMap == [x \in {} |-> 0]

\* A label string: "Mesh{i}", "Mesh{i}/Primitive{j}", "Material{i}",
\* "MaterialDefault", "Texture{i}", "Node{i}", "Scene{i}", "Skin{i}",
\* "Animation{i}".
Label(kind, i) == [kind |-> kind, i |-> i, j |-> None]

mesh_label(i) == Label("Mesh", i)

primitive_label(i, j) == [kind |-> "Mesh/Primitive", i |-> i, j |-> j]

material_label(index) ==
    IF index # None THEN Label("Material", index) ELSE Label("MaterialDefault", None)

texture_label(i) == Label("Texture", i)

node_label(i) == Label("Node", i)

scene_label(i) == Label("Scene", i)

skin_label(i) == Label("Skin", i)

animation_label(i) == Label("Animation", i)

(***************************************************************************)
(* resolve_node_hierarchy                                                   *)
(***************************************************************************)

\* A GltfNode built by load_gltf for document node i: its payload (mesh and
\* transform of node i) and no children yet.
GltfNodeOf(i) == [data |-> i, children |-> <<>>]

\* The declared child-index lists of length <= maxlen over the indices 0..n
\* (n itself is out of range for a list of n nodes).
ChildLists(n, maxlen) == UNION {[1..k -> 0..n] : k \in 0..maxlen}

\* The lists of k child-index lists holding at most refs references in all.
RECURSIVE NodeLists(_, _, _)
NodeLists(n, k, refs) ==
    IF k = 0 THEN {<<>>}
    ELSE UNION {{Append(p, l) : p \in NodeLists(n, k - 1, refs - Len(l))} :
                l \in ChildLists(n, Min(refs, MaxChildren))}

\* The argument nodes_intermediate: (label, node, children) for each index.
Intermediate(lists) ==
    [k \in 1..Len(lists) |->
        [label |-> node_label(k - 1), node |-> GltfNodeOf(k - 1),
         children |-> lists[k]]]

\* The state of the function before any node was scanned.
ResolveEntry(n) ==
    [has_errored |-> FALSE,
     unexpected_child_warnings |-> 0,
     tree_warnings |-> 0,
     empty_children |-> <<>>,
     parents |-> [c \in 0..(n - 1) |-> None],
     unprocessed_nodes |-> EmptyMap,
     nodes |-> EmptyMap,
     dequeued |-> <<>>,
     panicked |-> FALSE]

\* A plausible slip: every child out of range is warned about.
RECURSIVE ScanChildrenWarnEach(_, _, _)
ScanChildrenWarnEach(children, i, st) ==
    IF children = <<>> THEN st
    ELSE LET child == Head(children)
             st1 == IF child \in DOMAIN st.parents
                    THEN [st EXCEPT !.parents[child] = i]
                    ELSE [st EXCEPT !.has_errored = TRUE,
                                    !.unexpected_child_warnings = @ + 1]
         IN ScanChildrenWarnEach(Tail(children), i, st1)

\* A plausible slip: the parent recorded first is kept.
RECURSIVE ScanChildrenKeepFirst(_, _, _)
ScanChildrenKeepFirst(children, i, st) ==
    IF children = <<>> THEN st
    ELSE LET child == Head(children)
             st1 == IF child \in DOMAIN st.parents
                    THEN IF st.parents[child] = None
                         THEN [st EXCEPT !.parents[child] = i]
                         ELSE st
                    ELSE IF ~st.has_errored
                         THEN [st EXCEPT !.has_errored = TRUE,
                                         !.unexpected_child_warnings = @ + 1]
                         ELSE st
         IN ScanChildrenKeepFirst(Tail(children), i, st1)

\* The inner loop over one node's children: record the parent of every child
\* in range, warn once about the first child out of range.
RECURSIVE ScanChildren(_, _, _)
ScanChildren(children, i, st) ==
    IF children = <<>> THEN st
    ELSE LET child == Head(children)
             st1 == IF child \in DOMAIN st.parents
                    THEN [st EXCEPT !.parents[child] = i]
                    ELSE IF ~st.has_errored
                         THEN [st EXCEPT !.has_errored = TRUE,
                                         !.unexpected_child_warnings = @ + 1]
                         ELSE st
         IN ScanChildren(Tail(children), i, st1)

\* A plausible slip: the node is queued whether its child set is empty or not.
SeedQueueAlways(queue, i, children) == Append(queue, i)

\* The work-queue insertion of a node whose child set is empty.
SeedQueue(queue, i, children) ==
    IF children = {} THEN Append(queue, i) ELSE queue

\* The enumerate().map(..).collect() over nodes_intermediate.
RECURSIVE ScanNodes(_, _, _)
ScanNodes(nodes_intermediate, i, st) ==
    IF i >= Len(nodes_intermediate) THEN st
    ELSE LET entry == nodes_intermediate[i + 1]
             st1 == ScanChildren(entry.children, i, st)
             children == Range(entry.children)
             st2 == [st1 EXCEPT
                       !.empty_children = SeedQueue(@, i, children),
                       !.unprocessed_nodes =
                           Put(@, i, [label |-> entry.label,
                                      node |-> entry.node,
                                      children |-> children])]
         IN ScanNodes(nodes_intermediate, i + 1, st2)

\* A plausible slip: child indices out of range are filtered out of the
\* argument before the scan, so their holders look complete.
ResolveBeginSkipDangling(nodes_intermediate) ==
    ScanNodes([k \in DOMAIN nodes_intermediate |->
                 [nodes_intermediate[k] EXCEPT
                    !.children = SelectSeq(@, LAMBDA c : c < Len(nodes_intermediate))]],
              0, ResolveEntry(Len(nodes_intermediate)))

ResolveBegin(nodes_intermediate) ==
    ScanNodes(nodes_intermediate, 0, ResolveEntry(Len(nodes_intermediate)))

\* A failed unwrap or assert: the function does not return.
Panic(st) == [st EXCEPT !.panicked = TRUE, !.empty_children = <<>>]

\* A plausible slip: the child is pushed without the children linked to it.
LinkChildShallow(parent_node, child_node) ==
    [parent_node EXCEPT !.children = Append(@, [child_node EXCEPT !.children = <<>>])]

\* The child pushed into the parent's children: a clone of the resolved child.
LinkChild(parent_node, child_node) ==
    [parent_node EXCEPT !.children = Append(@, child_node)]

\* One iteration of the while-let loop over the work queue.
ResolveIteration(st) ==
    LET index == Head(st.empty_children)
        popped == [st EXCEPT !.empty_children = Tail(@),
                             !.dequeued = Append(@, index)]
    IN IF index \notin DOMAIN st.unprocessed_nodes THEN Panic(popped)
       ELSE LET entry == st.unprocessed_nodes[index]
                unprocessed == Remove(st.unprocessed_nodes, index)
                nodes == Put(st.nodes, index,
                             [label |-> entry.label, node |-> entry.node])
                parent_index == st.parents[index]
                moved == [popped EXCEPT !.unprocessed_nodes = unprocessed,
                                        !.nodes = nodes]
            IN IF entry.children # {} THEN Panic(popped)
               ELSE IF parent_index = None THEN moved
               ELSE IF parent_index \notin DOMAIN unprocessed THEN Panic(moved)
               ELSE IF index \notin unprocessed[parent_index].children
                    THEN Panic(moved)
               ELSE LET parent == unprocessed[parent_index]
                        parent_children == parent.children \ {index}
                        linked == [parent EXCEPT
                                     !.children = parent_children,
                                     !.node = LinkChild(@, nodes[index].node)]
                    IN [moved EXCEPT
                          !.unprocessed_nodes[parent_index] = linked,
                          !.empty_children =
                              SeedQueue(@, parent_index, parent_children)]

\* A plausible slip: the warning is logged for every node left unprocessed.
TreeWarningPerNode(st) ==
    [st EXCEPT !.tree_warnings = @ + Cardinality(DOMAIN st.unprocessed_nodes)]

\* The "must be a tree" warning after the queue is drained.
TreeWarning(st) ==
    IF DOMAIN st.unprocessed_nodes # {}
    THEN [st EXCEPT !.tree_warnings = @ + 1]
    ELSE st

\* A plausible slip: the pairs are returned by descending index.
RECURSIVE SortDescending(_)
SortDescending(nodes) ==
    IF DOMAIN nodes = {} THEN <<>>
    ELSE LET k == CHOOSE x \in DOMAIN nodes : \A j \in DOMAIN nodes : j <= x
         IN <<nodes[k]>> \o SortDescending(Remove(nodes, k))

\* The smallest key of a non-empty set of indices.
MinKey(keys) == CHOOSE k \in keys : \A j \in keys : k <= j

\* sort_by_key on the index, then the (label, node) pairs without the index.
RECURSIVE SortByKey(_)
SortByKey(nodes) ==
    IF DOMAIN nodes = {} THEN <<>>
    ELSE LET k == MinKey(DOMAIN nodes)
         IN <<nodes[k]>> \o SortByKey(Remove(nodes, k))

\* A plausible slip: the nodes left unprocessed are returned as well.
ReturnedWithUnresolved(st) ==
    SortByKey([i \in DOMAIN st.nodes \cup DOMAIN st.unprocessed_nodes |->
                 IF i \in DOMAIN st.nodes THEN st.nodes[i]
                 ELSE [label |-> st.unprocessed_nodes[i].label,
                       node |-> st.unprocessed_nodes[i].node]])

\* The value returned: the resolved nodes only, sorted by index.
Returned(st) == SortByKey(st.nodes)

\* The loop run to the end of the queue.
RECURSIVE ResolveDrain(_)
ResolveDrain(st) ==
    IF st.empty_children = <<>> THEN st ELSE ResolveDrain(ResolveIteration(st))

\* The whole function: the returned sequence of (label, node).
resolve_node_hierarchy(nodes_intermediate) ==
    Returned(TreeWarning(ResolveDrain(ResolveBegin(nodes_intermediate))))

(***************************************************************************)
(* Accessor decoding and vertex-attribute conversion                        *)
(***************************************************************************)
DataTypes == {"I8", "U8", "I16", "U16", "U32", "F32"}

DimensionsSet == {"Scalar", "Vec2", "Vec3", "Vec4", "Mat2", "Mat3", "Mat4"}

\* the most elements an accessor holds
MaxItems == 3

Seqs(S, n) == UNION {[1..k -> S] : k \in 0..n}

\* the number of components of an element
Width(dimensions) ==
    CASE dimensions = "Scalar" -> 1
      [] dimensions = "Vec2" -> 2
      [] dimensions = "Vec3" -> 3
      [] dimensions = "Vec4" -> 4
      [] dimensions = "Mat2" -> 4
      [] dimensions = "Mat3" -> 9
      [] dimensions = "Mat4" -> 16

\* A high value of a component: the largest one of the 8- and 16-bit types,
\* 2^31 - 1 for u32 (the largest integer TLC represents), one for floats.
MaxOf(data_type) ==
    CASE data_type = "I8" -> 127
      [] data_type = "U8" -> 255
      [] data_type = "I16" -> 32767
      [] data_type = "U16" -> 65535
      [] data_type = "U32" -> 2147483647
      [] data_type = "F32" -> 1

\* Two stored elements for every format: the components counting up from
\* zero, and counting down from the largest value.
StoredElements(data_type, dimensions) ==
    {[k \in 1..Width(dimensions) |-> k - 1],
     [k \in 1..Width(dimensions) |-> MaxOf(data_type) - (k - 1)]}

\* A glTF accessor without its elements: component type, dimensionality,
\* normalization flag, whether it declares sparse overrides, and whether
\* its buffer view resolves against the loaded buffers.
AccessorFormats ==
    [data_type : DataTypes, dimensions : DimensionsSet, normalized : BOOLEAN,
     sparse : BOOLEAN, view_ok : BOOLEAN]

WithData(format, data) ==
    [data_type |-> format.data_type, dimensions |-> format.dimensions,
     normalized |-> format.normalized, sparse |-> format.sparse,
     view_ok |-> format.view_ok, data |-> data]

\* A glTF accessor as far as the decoder reads it: its format and the
\* elements it yields.
Accessors ==
    UNION {{WithData(format, data) :
                data \in Seqs(StoredElements(format.data_type,
                                             format.dimensions), MaxItems)} :
           format \in AccessorFormats}

\* An f32 as the quotient it stands for.
F32(num, den) ==
    IF num % den = 0 THEN [num |-> num \div den, den |-> 1]
    ELSE [num |-> num, den |-> den]

\* The items the element iterator yields: floats for a float accessor,
\* integers otherwise.
Items(accessor) ==
    [k \in DOMAIN accessor.data |->
        [c \in DOMAIN accessor.data[k] |->
            IF accessor.data_type = "F32" THEN F32(accessor.data[k][c], 1)
            ELSE accessor.data[k][c]]]

Ok(v) == [ok |-> TRUE, value |-> v]

Err(e) == [ok |-> FALSE, err |-> e]

\* BufferAccessor::iter: gltf::accessor::Iter::new yields a standard or a
\* sparse element iterator, or None when the buffer data does not resolve.
AccessorIter(accessor) ==
    IF ~accessor.view_ok THEN Err("MalformedData")
    ELSE Ok([iter |-> IF accessor.sparse THEN "Sparse" ELSE "Standard",
             items |-> Items(accessor)])

\* A VertexAttributeIter: the variant, the element iterator it wraps and the
\* normalization flag (FALSE for the variants that carry none).
AttributeIter(variant, iter, normalization) ==
    [variant |-> variant, iter |-> iter.iter, items |-> iter.items,
     normalization |-> normalization]

\* BufferAccessor::with_no_norm
WithNoNorm(accessor, variant) ==
    IF accessor.normalized THEN Err("UnsupportedFormat")
    ELSE LET it == AccessorIter(accessor)
         IN IF it.ok THEN Ok(AttributeIter(variant, it.value, FALSE)) ELSE it

\* BufferAccessor::with_norm
WithNorm(accessor, variant) ==
    LET it == AccessorIter(accessor)
    IN IF it.ok THEN Ok(AttributeIter(variant, it.value, accessor.normalized))
       ELSE it

\* VertexAttributeIter::from_accessor
FromAccessor(accessor) ==
    LET format == <<accessor.data_type, accessor.dimensions>>
    IN CASE format = <<"F32", "Scalar">> -> WithNoNorm(accessor, "F32")
         [] format = <<"U32", "Scalar">> -> WithNoNorm(accessor, "U32")
         [] format = <<"F32", "Vec2">> -> WithNoNorm(accessor, "F32x2")
         [] format = <<"U32", "Vec2">> -> WithNoNorm(accessor, "U32x2")
         [] format = <<"F32", "Vec3">> -> WithNoNorm(accessor, "F32x3")
         [] format = <<"U32", "Vec3">> -> WithNoNorm(accessor, "U32x3")
         [] format = <<"F32", "Vec4">> -> WithNoNorm(accessor, "F32x4")
         [] format = <<"U32", "Vec4">> -> WithNoNorm(accessor, "U32x4")
         [] format = <<"I16", "Vec2">> -> WithNorm(accessor, "S16x2")
         [] format = <<"U16", "Vec2">> -> WithNorm(accessor, "U16x2")
         [] format = <<"I16", "Vec4">> -> WithNorm(accessor, "S16x4")
         [] format = <<"U16", "Vec4">> -> WithNorm(accessor, "U16x4")
         [] format = <<"I8", "Vec2">> -> WithNorm(accessor, "S8x2")
         [] format = <<"U8", "Vec2">> -> WithNorm(accessor, "U8x2")
         [] format = <<"I8", "Vec4">> -> WithNorm(accessor, "S8x4")
         [] format = <<"U8", "Vec4">> -> WithNorm(accessor, "U8x4")
         [] format = <<"U16", "Vec3">> -> WithNorm(accessor, "U16x3")
         [] format = <<"U8", "Vec3">> -> WithNorm(accessor, "U8x3")
         [] OTHER -> Err("UnsupportedFormat")

\* VertexAttributeValues: the storage format, the element iterator the
\* values were collected from, and the collected elements.
Collected(format, it, elements) ==
    [format |-> format, collected_from |-> it.iter, elements |-> elements]

\* A mutation of Values: the elements are collected back to front.
ValuesReversed(format, it) ==
    Collected(format, it,
              [k \in DOMAIN it.items |-> it.items[Len(it.items) + 1 - k]])

\* VertexAttributeValues::X(it.collect())
Values(format, it) == Collected(format, it, it.items)

\* the largest value of the integer components of a variant
VariantMax(variant) ==
    IF variant \in {"U8x2", "U8x3", "U8x4"} THEN 255 ELSE 65535

\* Normalize::normalize of an unsigned integer component
Normalize(variant, c) == F32(c, VariantMax(variant))

\* A mutation of into_rgba_f32: the alpha of a three-component colour is 0.
into_rgba_f32_transparent(it) ==
    [k \in DOMAIN it.items |->
        [c \in 1..4 |->
            IF c \notin DOMAIN it.items[k] THEN F32(0, 1)
            ELSE IF it.variant \in {"F32x3", "F32x4"} THEN it.items[k][c]
            ELSE Normalize(it.variant, it.items[k][c])]]

\* ReadColors::into_rgba_f32: integer components are normalized, a
\* three-component colour gets alpha 1.0
into_rgba_f32(it) ==
    [k \in DOMAIN it.items |->
        [c \in 1..4 |->
            IF c \notin DOMAIN it.items[k] THEN F32(1, 1)
            ELSE IF it.variant \in {"F32x3", "F32x4"} THEN it.items[k][c]
            ELSE Normalize(it.variant, it.items[k][c])]]

\* A mutation of into_u16: the bytes are scaled to the range of a u16.
into_u16_scaled(it) ==
    [k \in DOMAIN it.items |->
        [c \in DOMAIN it.items[k] |-> (it.items[k][c] * 257) % 65536]]

\* ReadJoints::into_u16: x as u16 on every component
into_u16(it) ==
    [k \in DOMAIN it.items |->
        [c \in DOMAIN it.items[k] |-> it.items[k][c] % 65536]]

\* ReadTexCoords::into_f32: integer components are normalized
into_f32(it) ==
    [k \in DOMAIN it.items |->
        [c \in DOMAIN it.items[k] |-> Normalize(it.variant, it.items[k][c])]]

\* Normalization::apply_either
ApplyEither(normalization, normalized_ctor, unnormalized_ctor) ==
    IF normalization THEN normalized_ctor ELSE unnormalized_ctor

\* VertexAttributeIter::into_any_values
IntoAnyValues(it) ==
    LET n == it.normalization
    IN CASE it.variant = "F32" -> Ok(Values("Float32", it))
         [] it.variant = "U32" -> Ok(Values("Uint32", it))
         [] it.variant = "F32x2" -> Ok(Values("Float32x2", it))
         [] it.variant = "U32x2" -> Ok(Values("Uint32x2", it))
         [] it.variant = "F32x3" -> Ok(Values("Float32x3", it))
         [] it.variant = "U32x3" -> Ok(Values("Uint32x3", it))
         [] it.variant = "F32x4" -> Ok(Values("Float32x4", it))
         [] it.variant = "U32x4" -> Ok(Values("Uint32x4", it))
         [] it.variant = "S16x2" ->
                Ok(Values(ApplyEither(n, "Snorm16x2", "Sint16x2"), it))
         [] it.variant = "U16x2" ->
                Ok(Values(ApplyEither(n, "Unorm16x2", "Uint16x2"), it))
         [] it.variant = "S16x4" ->
                Ok(Values(ApplyEither(n, "Snorm16x4", "Sint16x4"), it))
         [] it.variant = "U16x4" ->
                Ok(Values(ApplyEither(n, "Unorm16x4", "Uint16x4"), it))
         [] it.variant = "S8x2" ->
                Ok(Values(ApplyEither(n, "Snorm8x2", "Sint8x2"), it))
         [] it.variant = "U8x2" ->
                Ok(Values(ApplyEither(n, "Unorm8x2", "Uint8x2"), it))
         [] it.variant = "S8x4" ->
                Ok(Values(ApplyEither(n, "Snorm8x4", "Sint8x4"), it))
         [] it.variant = "U8x4" ->
                Ok(Values(ApplyEither(n, "Unorm8x4", "Uint8x4"), it))
         [] OTHER -> Err("UnsupportedFormat")

\* VertexAttributeIter::into_rgba_values
IntoRgbaValues(it) ==
    IF \/ it.variant \in {"U8x3", "U16x3", "U8x4", "U16x4"} /\ it.normalization
       \/ it.variant = "F32x3"
    THEN Ok(Collected("Float32x4", it, into_rgba_f32(it)))
    ELSE IntoAnyValues(it)

\* VertexAttributeIter::into_joint_index_values
IntoJointIndexValues(it) ==
    IF it.variant = "U8x4" /\ ~it.normalization
    THEN Ok(Collected("Uint16x4", it, into_u16(it)))
    ELSE IntoAnyValues(it)

\* VertexAttributeIter::into_tex_coord_values
IntoTexCoordValues(it) ==
    IF it.variant \in {"U8x2", "U16x2"} /\ it.normalization
    THEN Ok(Collected("Float32x2", it, into_f32(it)))
    ELSE IntoAnyValues(it)

\* enum VertexAttributeConversion
Conversions == {"Any", "Rgba", "JointIndex", "TexCoord"}

\* The conversion applied to the raw iterator (raw_iter.and_then(..)).
ConvertedValues(conversion, accessor) ==
    LET raw_iter == FromAccessor(accessor)
    IN IF ~raw_iter.ok THEN raw_iter
       ELSE CASE conversion = "Any" -> IntoAnyValues(raw_iter.value)
              [] conversion = "Rgba" -> IntoRgbaValues(raw_iter.value)
              [] conversion = "TexCoord" -> IntoTexCoordValues(raw_iter.value)
              [] conversion = "JointIndex" ->
                     IntoJointIndexValues(raw_iter.value)

(***************************************************************************)
(* load_gltf: labels, the document, and the steps before the meshes         *)
(***************************************************************************)
\* A GltfError value: the variant and, for MissingAnimationSampler, the index.
GltfError(kind, arg) == [kind |-> kind, arg |-> arg]

NoError == GltfError("none", None)

\* An error returned after part of the work was done: what had been built.
Fail(e, built) == [ok |-> FALSE, err |-> e, value |-> built]

\* A plausible slip: the error is noted and the load goes on.
PropagateAndGoOn(outcome, next) ==
    [pc |-> next, err |-> IF outcome.ok THEN NoError ELSE outcome.err]

\* The `?` operator on a Result: go on to the next step on Ok, return the
\* error on Err.
Propagate(outcome, next) ==
    IF outcome.ok THEN [pc |-> next, err |-> NoError]
    ELSE [pc |-> "failed", err |-> outcome.err]

\* One source of a buffer and what resolving it meets.
BufferSources ==
    {"bin", "data_uri", "data_uri_bad_mime", "data_uri_bad_base64",
     "path", "path_io_error"}

\* A plausible slip: a buffer without a blob or with another MIME type is
\* resolved to an empty byte sequence.
RECURSIVE load_buffers_lenient(_, _, _)
load_buffers_lenient(doc, k, buffer_data) ==
    IF k > Len(doc.buffers) THEN Ok(buffer_data)
    ELSE LET source == doc.buffers[k]
         IN CASE source = "data_uri_bad_base64" ->
                    Err(GltfError("Base64Decode", None))
              [] source = "path_io_error" -> Err(GltfError("AssetIoError", None))
              [] OTHER ->
                    load_buffers_lenient(doc, k + 1, Append(buffer_data, k - 1))

\* load_buffers: one byte sequence per buffer in declaration order, or the
\* error of the first buffer that fails.
RECURSIVE load_buffers(_, _, _)
load_buffers(doc, k, buffer_data) ==
    IF k > Len(doc.buffers) THEN Ok(buffer_data)
    ELSE LET source == doc.buffers[k]
         IN CASE source = "bin" ->
                    IF doc.blob
                    THEN load_buffers(doc, k + 1, Append(buffer_data, k - 1))
                    ELSE Err(GltfError("MissingBlob", None))
              [] source = "data_uri_bad_mime" -> Err(GltfError("BufferFormatUnsupported", None))
              [] source = "data_uri_bad_base64" -> Err(GltfError("Base64Decode", None))
              [] source = "path_io_error" -> Err(GltfError("AssetIoError", None))
              [] OTHER -> load_buffers(doc, k + 1, Append(buffer_data, k - 1))

\* A plausible slip: a texture is linear only as a normal map.
LinearSlotsNormalOnly(material) == {material.normal_texture} \ {None}

\* The texture slots of a material that make a texture linear.
LinearSlots(material) ==
    {material.normal_texture, material.occlusion_texture,
     material.metallic_roughness_texture} \ {None}

\* The set linear_textures after the loop over the materials.
LinearTextures(doc) ==
    UNION {LinearSlots(doc.materials[k]) : k \in DOMAIN doc.materials}

\* node_name: the node's name, or "GltfNode{index}" when it has none.
node_name(doc, i) ==
    IF doc.nodes[i + 1].name # None
    THEN <<"Name", doc.nodes[i + 1].name>>
    ELSE <<"GltfNode", i>>

\* paths_recur, with the recursion over the children as a fold.  The
\* recursion follows the child lists of the document, so it does not return
\* when it meets a cycle: depth counts the frames still available.
RECURSIVE paths_recur(_, _, _, _, _, _)
RECURSIVE paths_children(_, _, _, _, _, _)
paths_recur(doc, node, current_path, paths, root_index, depth) ==
    IF depth = 0 THEN Err(GltfError("StackOverflow", None))
    ELSE LET path == Append(current_path, node_name(doc, node))
             below == paths_children(doc, doc.nodes[node + 1].children, path,
                                     paths, root_index, depth - 1)
         IN IF ~below.ok THEN below
            ELSE Ok(Put(below.value, node,
                        [root_index |-> root_index, path |-> path]))

paths_children(doc, children, path, paths, root_index, depth) ==
    IF children = <<>> THEN Ok(paths)
    ELSE LET first == paths_recur(doc, Head(children), path, paths,
                                  root_index, depth)
         IN IF ~first.ok THEN first
            ELSE paths_children(doc, Tail(children), path, first.value,
                                root_index, depth)

\* The roots of all scenes, in the order the scenes list them.
RECURSIVE SceneRoots(_, _)
SceneRoots(doc, k) ==
    IF k > Len(doc.scenes) THEN <<>>
    ELSE doc.scenes[k] \o SceneRoots(doc, k + 1)

\* The map paths: for each node reached from a scene root, the root and the
\* names on the way.
RECURSIVE ScenePaths(_, _, _)
ScenePaths(doc, roots, paths) ==
    IF roots = <<>> THEN Ok(paths)
    ELSE LET first == paths_recur(doc, Head(roots), <<>>, paths, Head(roots),
                                  Len(doc.nodes) + 1)
         IN IF ~first.ok THEN first
            ELSE ScenePaths(doc, Tail(roots), first.value)

\* The channels of one animation: the clip built so far, the warnings and
\* the animation roots, or the error that ends the load.
RECURSIVE load_channels(_, _, _, _, _)
load_channels(channels, animation_index, paths, k, acc) ==
    IF k > Len(channels) THEN Ok(acc)
    ELSE LET channel == channels[k]
             warned == IF channel.interpolation # "Linear"
                       THEN [acc EXCEPT !.warnings =
                               Append(@, [kind |-> "interpolation",
                                          animation |-> animation_index])]
                       ELSE acc
             skip(kind) == [warned EXCEPT !.warnings =
                              Append(@, [kind |-> kind,
                                         animation |-> animation_index])]
         IN CASE channel.input = "missing" ->
                    Fail(GltfError("MissingAnimationSampler", animation_index),
                         skip("no_sampler_input"))
              [] channel.input = "sparse" ->
                    load_channels(channels, animation_index, paths, k + 1,
                                  skip("sparse_input"))
              [] channel.output = "missing" ->
                    Fail(GltfError("MissingAnimationSampler", animation_index),
                         skip("no_sampler_output"))
              [] channel.output = "morph" ->
                    load_channels(channels, animation_index, paths, k + 1,
                                  skip("morph_output"))
              [] channel.node \in DOMAIN paths ->
                    load_channels(channels, animation_index, paths, k + 1,
                        [warned EXCEPT
                           !.animation_roots =
                               @ \cup {paths[channel.node].root_index},
                           !.curves = Append(@,
                               [path |-> paths[channel.node].path,
                                keyframes |-> channel.output])])
              [] OTHER ->
                    load_channels(channels, animation_index, paths, k + 1,
                                  skip("missing_path"))

\* A plausible slip: an animation with a missing sampler is left out and
\* the loop goes on.
RECURSIVE load_animations_lenient(_, _, _, _)
load_animations_lenient(doc, paths, k, acc) ==
    IF k > Len(doc.animations) THEN Ok(acc)
    ELSE LET clip == load_channels(doc.animations[k], k - 1, paths, 1,
                                   [acc EXCEPT !.curves = <<>>])
         IN IF ~clip.ok
            THEN load_animations_lenient(doc, paths, k + 1, clip.value)
            ELSE load_animations_lenient(doc, paths, k + 1,
                    [clip.value EXCEPT
                       !.clips = Append(@, [index |-> k - 1,
                                            curves |-> clip.value.curves])])

\* The loop over the animations: the clips registered so far.
RECURSIVE load_animations(_, _, _, _)
load_animations(doc, paths, k, acc) ==
    IF k > Len(doc.animations) THEN Ok(acc)
    ELSE LET clip == load_channels(doc.animations[k], k - 1, paths, 1,
                                   [acc EXCEPT !.curves = <<>>])
         IN IF ~clip.ok THEN clip
            ELSE load_animations(doc, paths, k + 1,
                    [clip.value EXCEPT
                       !.clips = Append(@, [index |-> k - 1,
                                            curves |-> clip.value.curves])])

(***************************************************************************)
(* load_gltf: meshes                                                        *)
(***************************************************************************)
Modes ==
    {"Points", "Lines", "LineLoop", "LineStrip", "Triangles", "TriangleStrip",
     "TriangleFan"}

\* A plausible slip: the remaining modes are drawn as a triangle list.
get_primitive_topology_any(mode) ==
    CASE mode = "Points" -> Ok("PointList")
      [] mode = "Lines" -> Ok("LineList")
      [] mode = "LineStrip" -> Ok("LineStrip")
      [] mode = "TriangleStrip" -> Ok("TriangleStrip")
      [] OTHER -> Ok("TriangleList")

\* get_primitive_topology
get_primitive_topology(mode) ==
    CASE mode = "Points" -> Ok("PointList")
      [] mode = "Lines" -> Ok("LineList")
      [] mode = "LineStrip" -> Ok("LineStrip")
      [] mode = "Triangles" -> Ok("TriangleList")
      [] mode = "TriangleStrip" -> Ok("TriangleStrip")
      [] OTHER -> Err(GltfError("UnsupportedPrimitive", None))

\* The semantics a primitive can carry: the seven the loader maps, a custom
\* attribute the loader was configured with, a custom attribute it was not
\* configured with, and one of the numbered sets it does not read.
Semantics ==
    {"Positions", "Normals", "Tangents", "Colors0", "TexCoords0", "Joints0",
     "Weights0", "ExtrasConfigured", "ExtrasOther", "Colors1"}

\* A MeshVertexAttribute: its name and its declared format.
MeshAttribute(name, format) == [name |-> name, format |-> format]

\* loader.custom_vertex_attributes.get(name) for the configured name
CustomAttribute == MeshAttribute("Custom", "Float32x2")

Target(attribute, conversion) ==
    [some |-> TRUE, attribute |-> attribute, conversion |-> conversion]

\* The match on the semantic: the target attribute and the conversion, or
\* None for a semantic the loader does not recognise.
TargetOf(semantic) ==
    CASE semantic = "Positions" ->
             Target(MeshAttribute("Vertex_Position", "Float32x3"), "Any")
      [] semantic = "Normals" ->
             Target(MeshAttribute("Vertex_Normal", "Float32x3"), "Any")
      [] semantic = "Tangents" ->
             Target(MeshAttribute("Vertex_Tangent", "Float32x4"), "Any")
      [] semantic = "Colors0" ->
             Target(MeshAttribute("Vertex_Color", "Float32x4"), "Rgba")
      [] semantic = "TexCoords0" ->
             Target(MeshAttribute("Vertex_Uv", "Float32x2"), "TexCoord")
      [] semantic = "Joints0" ->
             Target(MeshAttribute("Vertex_JointIndex", "Uint16x4"), "JointIndex")
      [] semantic = "Weights0" ->
             Target(MeshAttribute("Vertex_JointWeight", "Float32x4"), "Any")
      [] semantic = "ExtrasConfigured" -> Target(CustomAttribute, "Any")
      [] OTHER -> [some |-> FALSE]

\* A mesh without indices, a primitive without an index accessor.
NoIndices == "none"

\* Mesh::new(primitive_topology)
NewMesh(topology) ==
    [topology |-> topology, attributes |-> EmptyMap, indices |-> NoIndices,
     index_values |-> <<>>]

\* A plausible slip: the values are inserted whatever their format.
InsertConvertedUnchecked(mesh, attribute, converted_values) ==
    IF converted_values.ok
    THEN [mesh EXCEPT !.attributes =
             Put(@, attribute.name, converted_values.value)]
    ELSE mesh

\* The match on converted_values: insert the values when their format is
\* the target's, leave the mesh alone otherwise.
InsertConverted(mesh, attribute, converted_values) ==
    IF converted_values.ok /\ attribute.format = converted_values.value.format
    THEN [mesh EXCEPT !.attributes =
             Put(@, attribute.name, converted_values.value)]
    ELSE mesh

NoWarning == "none"

\* The diagnostic of one attribute, NoWarning when it was inserted.
AttributeWarning(semantic, target, converted_values) ==
    CASE ~target.some -> "Unrecognised vertex attribute"
      [] ~converted_values.ok /\ converted_values.err = "MalformedData" ->
             "Malformed vertex attribute data"
      [] ~converted_values.ok -> "Unsupported vertex attribute format"
      [] target.attribute.format # converted_values.value.format ->
             "Vertex attribute has format but expected"
      [] OTHER -> NoWarning

\* What the body of the attribute loop does with one (semantic, accessor):
\* the mesh after it, the outcome of the conversion and the warning logged.
ReadVertexAttribute(mesh, semantic, accessor) ==
    LET target == TargetOf(semantic)
        converted_values ==
            IF target.some THEN ConvertedValues(target.conversion, accessor)
            ELSE Err("NotConverted")
    IN [mesh |-> IF target.some
                 THEN InsertConverted(mesh, target.attribute, converted_values)
                 ELSE mesh,
        outcome |-> IF converted_values.ok THEN "Ok" ELSE converted_values.err,
        view_ok |-> accessor.view_ok,
        loaded_format |-> IF converted_values.ok
                          THEN converted_values.value.format ELSE NoWarning,
        warning |-> AttributeWarning(semantic, target, converted_values)]

\* reader.read_indices(): 8-bit indices widen to 16 bit.
ReadIndices(mesh, indices, index_values) ==
    IF indices = NoIndices THEN mesh
    ELSE [mesh EXCEPT !.indices = IF indices = "U32" THEN "U32" ELSE "U16",
                      !.index_values = index_values]

\* Mesh::count_vertices: the length of the shortest attribute, zero
\* without attributes
count_vertices(mesh) ==
    IF DOMAIN mesh.attributes = {} THEN 0
    ELSE LET lengths == {Len(mesh.attributes[a].elements) :
                            a \in DOMAIN mesh.attributes}
         IN CHOOSE n \in lengths : \A m \in lengths : n <= m

\* Mesh::duplicate_vertices indexes every attribute with every index
\* (values[i]), which panics on an index past the end
DuplicatePanics(mesh) ==
    /\ mesh.indices # NoIndices
    /\ \E a \in DOMAIN mesh.attributes :
          \E k \in DOMAIN mesh.index_values :
             mesh.index_values[k] + 1 \notin DOMAIN mesh.attributes[a].elements

\* Mesh::duplicate_vertices: the indices are taken out of the mesh and every
\* attribute gets one element per index; a mesh without indices is left
\* alone.
duplicate_vertices(mesh) ==
    IF mesh.indices = NoIndices THEN mesh
    ELSE [mesh EXCEPT
            !.indices = NoIndices,
            !.index_values = <<>>,
            !.attributes =
                [a \in DOMAIN @ |->
                    [@[a] EXCEPT !.elements =
                        [k \in DOMAIN mesh.index_values |->
                            mesh.attributes[a].elements[mesh.index_values[k] + 1]]]]]

\* the normal of the triangle a, b, c: (b - a).cross(c - a).normalize()
FaceNormal(a, b, c) == [face_normal_of |-> <<a, b, c>>]

\* Mesh::compute_flat_normals: one normal per full chunk of three positions,
\* stored for each of its three vertices
compute_flat_normals(mesh) ==
    LET positions == mesh.attributes["Vertex_Position"].elements
        normals ==
            [k \in 1..(3 * (Len(positions) \div 3)) |->
                LET first == 3 * ((k - 1) \div 3) + 1
                IN FaceNormal(positions[first], positions[first + 1],
                              positions[first + 2])]
    IN [mesh EXCEPT !.attributes =
           Put(@, "Vertex_Normal",
               [format |-> "Float32x3", collected_from |-> "Computed",
                elements |-> normals])]

\* duplicate_vertices and compute_flat_normals on a triangle list without
\* normals, and the vertex counts around them. compute_flat_normals unwraps
\* the position attribute: without one the load panics.
FlatNormals(mesh) ==
    IF "Vertex_Normal" \notin DOMAIN mesh.attributes
       /\ mesh.topology = "TriangleList"
    THEN IF DuplicatePanics(mesh)
            \/ "Vertex_Position" \notin DOMAIN mesh.attributes
         THEN [panicked |-> TRUE, mesh |-> mesh,
               vertex_count_before |-> count_vertices(mesh),
               vertex_count_after |-> None]
         ELSE LET flat == compute_flat_normals(duplicate_vertices(mesh))
              IN [panicked |-> FALSE, mesh |-> flat,
                  vertex_count_before |-> count_vertices(mesh),
                  vertex_count_after |-> count_vertices(flat)]
    ELSE [panicked |-> FALSE, mesh |-> mesh,
          vertex_count_before |-> None, vertex_count_after |-> None]

\* The tangents: read through the primitive's reader when it has a readable
\* tangent accessor, generated when there are normals and the material has
\* a normal map and the generation succeeds.
Tangents(mesh, read_tangents, normal_map, generated) ==
    IF read_tangents
    THEN [mesh EXCEPT !.attributes =
            Put(@, "Vertex_Tangent",
                [format |-> "Float32x4", collected_from |-> "Reader"])]
    ELSE IF "Vertex_Normal" \in DOMAIN mesh.attributes /\ normal_map /\ generated
    THEN [mesh EXCEPT !.attributes =
            Put(@, "Vertex_Tangent",
                [format |-> "Float32x4", collected_from |-> "Generated"])]
    ELSE mesh

\* Option::None where a handle is expected.
NoHandle == Label("none", None)

\* materials.get(i).cloned() of the primitive's material index
MaterialHandle(doc, material) ==
    IF material # None /\ material + 1 \in DOMAIN doc.materials
    THEN material_label(material)
    ELSE NoHandle

\* whether the primitive's material declares a normal map
HasNormalMap(doc, material) ==
    /\ material # None
    /\ material + 1 \in DOMAIN doc.materials
    /\ doc.materials[material + 1].normal_texture # None

(***************************************************************************)
(* load_gltf: nodes, textures, skins, scenes                                *)
(***************************************************************************)
\* nodes_intermediate as load_gltf builds it from the document's nodes.
DocIntermediate(doc) ==
    [k \in DOMAIN doc.nodes |->
        [label |-> node_label(k - 1), node |-> GltfNodeOf(k - 1),
         children |-> doc.nodes[k].children]]

\* named_nodes_intermediate: node name -> node index (a later node with the
\* same name replaces an earlier one).
NamedNodesIntermediate(doc) ==
    LET names == {doc.nodes[k].name : k \in DOMAIN doc.nodes} \ {None}
    IN [name \in names |->
          (CHOOSE k \in DOMAIN doc.nodes :
              /\ doc.nodes[k].name = name
              /\ \A l \in DOMAIN doc.nodes : doc.nodes[l].name = name => l <= k)
          - 1]

\* The handles of the resolved nodes, in the order resolve_node_hierarchy
\* returned them (a handle is known by the label it was registered under).
NodeHandles(resolved) == [k \in DOMAIN resolved |-> resolved[k].label]

\* Vec::get with a zero-based index
VecGet(vec, index) ==
    IF index + 1 \in DOMAIN vec THEN vec[index + 1] ELSE NoHandle

\* named_nodes: filter_map of nodes.get(index) over named_nodes_intermediate
NamedNodes(named_nodes_intermediate, nodes) ==
    LET found == {name \in DOMAIN named_nodes_intermediate :
                     VecGet(nodes, named_nodes_intermediate[name]) # NoHandle}
    IN [name \in found |-> VecGet(nodes, named_nodes_intermediate[name])]

\* What decoding one texture meets: an image that decodes, a MIME type or
\* bytes that Image::from_buffer rejects, a data URI whose payload does not
\* decode, a path that cannot be read.
TextureSources ==
    {"image", "invalid_mime_type", "undecodable_image", "bad_data_uri",
     "unreadable_path"}

\* The GltfError variant the `?` in load_texture converts the failure into.
TextureError(source) ==
    CASE source \in {"invalid_mime_type", "undecodable_image"} -> "ImageError"
      [] source = "bad_data_uri" -> "Base64Decode"
      [] source = "unreadable_path" -> "AssetIoError"

\* load_texture: the image with its colour-space flag and its label.
load_texture(doc, i, linear_textures) ==
    LET is_srgb == i \notin linear_textures
        source == doc.textures[i + 1]
    IN IF source = "image"
       THEN Ok([texture |-> [image |-> i, is_srgb |-> is_srgb],
                label |-> texture_label(i)])
       ELSE Err(GltfError(TextureError(source), None))

\* A plausible slip: the target is not looked at.
SerialTexturesAnyTarget(doc) == Len(doc.textures) = 1

\* The condition of the serial texture path.
SerialTextures(doc) == Len(doc.textures) = 1 \/ doc.wasm32

\* set_labeled_asset
SetLabeledAsset(labeled_assets, label, asset) == Put(labeled_assets, label, asset)

\* A plausible slip: the first Err ends the registration.
RECURSIVE RegisterTexturesUntilErr(_, _)
RegisterTexturesUntilErr(results, acc) ==
    IF results = <<>> THEN acc
    ELSE LET res == Head(results)
         IN IF res.ok
            THEN RegisterTexturesUntilErr(Tail(results),
                   [acc EXCEPT !.labeled_assets =
                      SetLabeledAsset(@, res.value.label, res.value.texture)])
            ELSE [acc EXCEPT !.warnings =
                    Append(@, [kind |-> "Error loading glTF texture",
                               error |-> res.err.kind])]

\* A plausible slip: a texture is labelled by its place among the results.
RECURSIVE RegisterTexturesInOrder(_, _)
RegisterTexturesInOrder(results, acc) ==
    IF results = <<>> THEN acc
    ELSE LET res == Head(results)
             place == Cardinality({l \in DOMAIN acc.labeled_assets :
                                      l.kind = "Texture"})
         IN RegisterTexturesInOrder(Tail(results),
              IF res.ok
              THEN [acc EXCEPT !.labeled_assets =
                      SetLabeledAsset(@, texture_label(place), res.value.texture)]
              ELSE [acc EXCEPT !.warnings =
                      Append(@, [kind |-> "Error loading glTF texture",
                                 error |-> res.err.kind])])

\* The results of the task scope, registered: an Err is logged and dropped,
\* an Ok registers the texture under the label it carries.
RECURSIVE RegisterTextures(_, _)
RegisterTextures(results, acc) ==
    IF results = <<>> THEN acc
    ELSE LET res == Head(results)
         IN RegisterTextures(Tail(results),
              IF res.ok
              THEN [acc EXCEPT !.labeled_assets =
                      SetLabeledAsset(@, res.value.label, res.value.texture)]
              ELSE [acc EXCEPT !.warnings =
                      Append(@, [kind |-> "Error loading glTF texture",
                                 error |-> res.err.kind])])

\* A plausible slip: a skin without inverse bind matrices gets identity
\* matrices.
RECURSIVE load_skins_or_identity(_, _, _)
load_skins_or_identity(doc, k, labeled_assets) ==
    IF k > Len(doc.skins) THEN Ok(labeled_assets)
    ELSE load_skins_or_identity(doc, k + 1,
            SetLabeledAsset(labeled_assets, skin_label(k - 1),
                            [inverse_bindposes |->
                                IF doc.skins[k].inverse_bind_matrices
                                THEN k - 1 ELSE None]))

\* The loop over the skins: each needs its inverse bind matrices (unwrap).
RECURSIVE load_skins(_, _, _)
load_skins(doc, k, labeled_assets) ==
    IF k > Len(doc.skins) THEN Ok(labeled_assets)
    ELSE IF ~doc.skins[k].inverse_bind_matrices
    THEN Fail(GltfError("Panic", None), labeled_assets)
    ELSE load_skins(doc, k + 1,
            SetLabeledAsset(labeled_assets, skin_label(k - 1),
                            [inverse_bindposes |-> k - 1]))

\* The nodes load_node spawns from the given roots, following the child
\* lists; the recursion does not return when it meets a cycle.
RECURSIVE Spawned(_, _, _)
Spawned(doc, roots, depth) ==
    IF roots = <<>> THEN Ok({})
    ELSE IF depth = 0 THEN Err(GltfError("StackOverflow", None))
    ELSE LET node == Head(roots)
             below == Spawned(doc, doc.nodes[node + 1].children, depth - 1)
             rest == Spawned(doc, Tail(roots), depth)
         IN IF ~below.ok THEN below
            ELSE IF ~rest.ok THEN rest
            ELSE Ok({node} \cup below.value \cup rest.value)

\* The nodes among the spawned ones that carry a mesh with a primitive.
MeshNodes(doc, spawned) ==
    {n \in spawned : /\ doc.nodes[n + 1].mesh # None
                     /\ doc.meshes[doc.nodes[n + 1].mesh + 1] # <<>>}

\* Whether load_node meets a primitive without a material reference.
NeedsDefaultMaterial(doc, spawned) ==
    \E n \in MeshNodes(doc, spawned) :
        \E j \in DOMAIN doc.meshes[doc.nodes[n + 1].mesh + 1] :
            doc.meshes[doc.nodes[n + 1].mesh + 1][j].material = None

\* A plausible slip: the default material is loaded whenever it is needed.
DefaultMaterialEveryTime(doc, spawned, acc) ==
    IF NeedsDefaultMaterial(doc, spawned)
    THEN [acc EXCEPT
            !.labeled_assets =
                SetLabeledAsset(@, material_label(None), [material |-> None]),
            !.default_material_loads = @ + 1]
    ELSE acc

\* load_node on the default material: registered when its label is not
\* there yet.
DefaultMaterial(doc, spawned, acc) ==
    IF NeedsDefaultMaterial(doc, spawned)
       /\ material_label(None) \notin DOMAIN acc.labeled_assets
    THEN [acc EXCEPT
            !.labeled_assets =
                SetLabeledAsset(@, material_label(None), [material |-> None]),
            !.default_material_loads = @ + 1]
    ELSE acc

\* The lookup of the joint entities of the skinned meshes of a scene: a
\* joint that was not spawned in the scene is a missing key.
JointsSpawned(doc, spawned) ==
    \A n \in MeshNodes(doc, spawned) :
        doc.nodes[n + 1].skin # None =>
            Range(doc.skins[doc.nodes[n + 1].skin + 1].joints) \subseteq spawned

\* The loop over the scenes.
RECURSIVE load_scenes(_, _, _)
load_scenes(doc, k, acc) ==
    IF k > Len(doc.scenes) THEN Ok(acc)
    ELSE LET spawned == Spawned(doc, doc.scenes[k], Len(doc.nodes) + 1)
         IN IF ~spawned.ok THEN Fail(spawned.err, acc)
            ELSE LET acc1 == DefaultMaterial(doc, spawned.value, acc)
                 IN IF ~JointsSpawned(doc, spawned.value)
                    THEN Fail(GltfError("Panic", None), acc1)
                    ELSE load_scenes(doc, k + 1,
                           [acc1 EXCEPT
                              !.labeled_assets =
                                  SetLabeledAsset(@, scene_label(k - 1),
                                      [entities |-> spawned.value]),
                              !.scenes = Append(@, scene_label(k - 1))])

(***************************************************************************)
(* State                                                                    *)
(***************************************************************************)
VARIABLES
    pc,                 \* position of the running function
    nodes_intermediate, \* resolve_node_hierarchy: the argument
    rs,                 \* resolve_node_hierarchy: the locals
    result,             \* resolve_node_hierarchy: the returned sequence
    conversion,         \* the conversion applied to one accessor
    accessor,           \* the accessor it is applied to
    converted,          \* the Result of the conversion
    doc,                \* load_gltf: the parsed document and the target
    ld,                 \* load_gltf: the locals
    labeled_assets,     \* the load context's label table
    default_asset,      \* the load context's default asset, None until set
    default_sets,       \* how often set_default_asset was called
    warnings,           \* the diagnostics logged by load_gltf
    err                 \* the error load_gltf returned

vars ==
    <<pc, nodes_intermediate, rs, result, conversion, accessor, converted,
      doc, ld, labeled_assets, default_asset, default_sets, warnings, err>>

resolveVars == <<nodes_intermediate, rs, result>>

accessorVars == <<conversion, accessor, converted>>

loadVars ==
    <<doc, ld, labeled_assets, default_asset, default_sets, warnings, err>>

NoAccessor ==
    [data_type |-> "F32", dimensions |-> "Scalar", normalized |-> FALSE,
     sparse |-> FALSE, view_ok |-> TRUE, data |-> <<>>]

\* The locals of load_gltf before its first statement.
LoadEntry ==
    [buffer_data |-> <<>>,
     materials |-> <<>>,
     linear_textures |-> {},
     paths |-> EmptyMap,
     animations |-> <<>>,
     animation_roots |-> {},
     meshes |-> <<>>,
     mesh_i |-> 0,
     prim_j |-> 0,
     attrs_left |-> 0,
     attr_log |-> <<>>,
     primitive_label |-> NoHandle,
     mesh |-> NewMesh("PointList"),
     vertex_count_before |-> None,
     vertex_count_after |-> None,
     primitives |-> <<>>,
     nodes |-> <<>>,
     named_nodes |-> EmptyMap,
     tex_i |-> 0,
     tasks |-> {},
     results |-> <<>>,
     scenes |-> <<>>,
     default_material_loads |-> 0]

\* A document with one embedded buffer and nothing else, on a native target.
BaseDoc ==
    [parse_ok |-> TRUE,
     wasm32 |-> FALSE,
     blob |-> TRUE,
     buffers |-> <<"bin">>,
     materials |-> <<>>,
     animations |-> <<>>,
     meshes |-> <<>>,
     nodes |-> <<>>,
     textures |-> <<>>,
     skins |-> <<>>,
     scenes |-> <<>>]

IdleResolve ==
    /\ nodes_intermediate = <<>>
    /\ rs = ResolveEntry(0)
    /\ result = <<>>

IdleAccessor ==
    /\ conversion = "Any"
    /\ accessor = NoAccessor
    /\ converted = Err("NotConverted")

IdleLoad ==
    /\ doc = BaseDoc
    /\ ld = LoadEntry
    /\ labeled_assets = EmptyMap
    /\ default_asset = None
    /\ default_sets = 0
    /\ warnings = <<>>
    /\ err = NoError

(***************************************************************************)
(* resolve_node_hierarchy on its own, on every node list within the bounds  *)
(***************************************************************************)
InitResolve ==
    /\ pc = "resolve_entry"
    /\ \E n \in 0..MaxNodes :
         \E lists \in NodeLists(n, n, MaxRefs) :
            nodes_intermediate = Intermediate(lists)
    /\ rs = ResolveEntry(0)
    /\ result = <<>>
    /\ IdleAccessor
    /\ IdleLoad

\* lines 1321-1343: the locals are built from the argument
ResolveScan ==
    /\ pc = "resolve_entry"
    /\ rs' = ResolveBegin(nodes_intermediate)
    /\ pc' = "resolve_loop"
    /\ UNCHANGED <<nodes_intermediate, result, accessorVars, loadVars>>

\* lines 1344-1360: one index is popped from the work queue
ResolvePop ==
    /\ pc = "resolve_loop"
    /\ rs.empty_children # <<>>
    /\ rs' = ResolveIteration(rs)
    /\ pc' = IF rs'.panicked THEN "panicked" ELSE "resolve_loop"
    /\ UNCHANGED <<nodes_intermediate, result, accessorVars, loadVars>>

\* lines 1361-1369: the queue is empty; warn, sort and return
ResolveReturn ==
    /\ pc = "resolve_loop"
    /\ rs.empty_children = <<>>
    /\ rs' = TreeWarning(rs)
    /\ result' = Returned(rs')
    /\ pc' = "resolve_done"
    /\ UNCHANGED <<nodes_intermediate, accessorVars, loadVars>>

NextResolve == ResolveScan \/ ResolvePop \/ ResolveReturn

SpecResolve == InitResolve /\ [][NextResolve]_vars

\* The function runs on: a loop iteration or the return that can be taken
\* is taken.
SpecResolveRuns == SpecResolve /\ WF_vars(NextResolve)

(***************************************************************************)
(* The accessor decoder and the conversions, on every accessor              *)
(***************************************************************************)
InitAccessor ==
    /\ pc = "convert_entry"
    /\ conversion \in Conversions
    /\ accessor \in Accessors
    /\ converted = Err("NotConverted")
    /\ IdleResolve
    /\ IdleLoad

\* lines 496-503: from_accessor and the conversion of the semantic
Convert ==
    /\ pc = "convert_entry"
    /\ converted' = ConvertedValues(conversion, accessor)
    /\ pc' = "convert_done"
    /\ UNCHANGED <<conversion, accessor, resolveVars, loadVars>>

NextAccessor == Convert

SpecAccessor == InitAccessor /\ [][NextAccessor]_vars

(***************************************************************************)
(* load_gltf                                                                *)
(***************************************************************************)
\* the longest attribute list of a primitive
MaxAttrs == 2
\* the largest number of textures of a document
MaxTextures == 3
\* the largest number of buffers of a document
MaxBuffers == 2
\* the largest number of channels of an animation
MaxChannels == 1
\* the number of vertices of a primitive
MaxVertices == 6

\* A primitive: its mode, how many attributes it declares, its index
\* accessor's component type, its material, whether generating tangents
\* would succeed.
PrimitiveOf(mode, attrs, indices, material) ==
    [mode |-> mode, attrs |-> attrs, indices |-> indices,
     index_values |-> <<>>, material |-> material, tangents_generate |-> TRUE]

\* The index lists of the indexed primitives: one triangle, and triangles
\* over the first three vertices with more indices than the primitive has
\* vertices.
IndexLists ==
    {<<0, 1, 2>>, [k \in 1..(MaxVertices + 3) |-> (k - 1) % 3]}

NodeOf(children, name, mesh, skin) ==
    [children |-> children, name |-> name, mesh |-> mesh, skin |-> skin]

MaterialOf(normal, occlusion, metallic_roughness) ==
    [normal_texture |-> normal, occlusion_texture |-> occlusion,
     metallic_roughness_texture |-> metallic_roughness,
     base_color_texture |-> None, emissive_texture |-> None, name |-> None]

\* Documents that differ in their buffers.
BufferDocs ==
    {[BaseDoc EXCEPT !.buffers = b, !.blob = blob] :
        b \in Seqs(BufferSources, MaxBuffers), blob \in BOOLEAN}
    \cup {[BaseDoc EXCEPT !.parse_ok = FALSE]}
    \cup {[BaseDoc EXCEPT
             !.buffers = <<"data_uri", source>>,
             !.blob = FALSE,
             !.textures = <<"image">>,
             !.meshes = <<<<PrimitiveOf("Points", 0, NoIndices, None)>>>>,
             !.nodes = <<NodeOf(<<>>, 0, 0, None)>>,
             !.scenes = <<<<0>>>>] :
            source \in {"bin", "data_uri_bad_mime", "path"}}

\* Documents that differ in one mesh with one primitive, and one document
\* with two meshes of two primitives and a material with a normal map.
MeshDocs ==
    {[BaseDoc EXCEPT !.meshes = <<<<PrimitiveOf(mode, 0, NoIndices, None)>>>>] :
        mode \in Modes}
    \cup {[BaseDoc EXCEPT !.meshes = <<<<PrimitiveOf(mode, attrs, NoIndices, None)>>>>] :
            mode \in {"Triangles", "Points", "TriangleFan"}, attrs \in 1..MaxAttrs}
    \cup {[BaseDoc EXCEPT !.meshes =
                <<<<[PrimitiveOf("Triangles", 1, indices, None)
                        EXCEPT !.index_values = index_values]>>>>] :
            indices \in {"U8", "U16", "U32"}, index_values \in IndexLists}
    \cup {[BaseDoc EXCEPT
             !.materials = <<MaterialOf(0, None, None)>>,
             !.meshes = <<<<PrimitiveOf("Triangles", 1, NoIndices, 0),
                            PrimitiveOf("Points", 0, NoIndices, None)>>,
                          <<PrimitiveOf("Lines", 0, NoIndices, 0),
                            PrimitiveOf("TriangleFan", 0, NoIndices, None)>>>>]}

\* Documents that differ in their node lists (every child index in range,
\* every node named after its index), with no scene or with one scene whose
\* root is node 0.
NodeDocs ==
    {[BaseDoc EXCEPT
        !.nodes = [k \in DOMAIN lists |-> NodeOf(lists[k], k - 1, None, None)],
        !.scenes = scenes] :
        lists \in UNION {{l \in NodeLists(n, n, MaxRefs) :
                            \A k \in DOMAIN l : \A c \in Range(l[k]) : c < n} :
                         n \in 1..MaxNodes},
        scenes \in {<<>>, <<<<0>>>>}}

\* Documents that differ in their textures and in the target.
TextureDocs ==
    {[BaseDoc EXCEPT !.textures = t, !.wasm32 = w] :
        t \in Seqs(TextureSources, MaxTextures), w \in BOOLEAN}

\* the texture a slot of a material refers to, if any, of two textures
TextureSlots == {None, 0, 1}

\* Documents with two textures that differ in one material's texture slots,
\* and documents with two materials, the first using a texture as base
\* colour or emissive map, the second as one of the linear maps.
MaterialDocs ==
    {[BaseDoc EXCEPT
        !.textures = <<"image", "image">>,
        !.materials = <<[MaterialOf(normal, occlusion, metallic_roughness)
                            EXCEPT !.base_color_texture = base_color]>>] :
        normal \in TextureSlots, occlusion \in TextureSlots,
        metallic_roughness \in TextureSlots, base_color \in TextureSlots}
    \cup {[BaseDoc EXCEPT
             !.textures = <<"image", "image">>,
             !.materials = <<[MaterialOf(None, None, None)
                                 EXCEPT !.base_color_texture = first,
                                        !.emissive_texture = first],
                             MaterialOf(IF slot = "normal" THEN second ELSE None,
                                        IF slot = "occlusion" THEN second ELSE None,
                                        IF slot = "metallic_roughness"
                                        THEN second ELSE None)>>] :
             first \in {0, 1}, second \in {0, 1},
             slot \in {"normal", "occlusion", "metallic_roughness"}}

ChannelOf(interpolation, input, output, node) ==
    [interpolation |-> interpolation, input |-> input, output |-> output,
     node |-> node]

Channels ==
    {ChannelOf(i, in, out, n) :
        i \in {"Linear", "Step"},
        in \in {"standard", "sparse", "missing"},
        out \in {"translation", "rotation", "scale", "morph", "missing"},
        n \in {0, 1, 2}}

\* Node lists of which the resolver drops a node: node 2 on a cycle outside
\* the scene of root 0, nodes 0 and 1 on a cycle in it, node 0 the first of
\* two parents of node 1.
CyclicLayouts ==
    {<<NodeOf(<<1>>, 0, None, None), NodeOf(<<>>, 1, None, None),
       NodeOf(<<2>>, 2, None, None)>>,
     <<NodeOf(<<1>>, 0, None, None), NodeOf(<<0>>, 1, None, None),
       NodeOf(<<>>, 2, None, None)>>,
     <<NodeOf(<<1>>, 0, None, None), NodeOf(<<>>, 1, None, None),
       NodeOf(<<1>>, 2, None, None)>>}

\* Documents that differ in the channels of their animations: node 1 is a
\* child of the scene root 0, node 2 is in no scene.
AnimationDocs ==
    {[BaseDoc EXCEPT
        !.nodes = <<NodeOf(<<1>>, 0, None, None), NodeOf(<<>>, None, None, None),
                    NodeOf(<<>>, 2, None, None)>>,
        !.scenes = <<<<0>>>>,
        !.animations = <<<<>>, channels>>] :
        channels \in Seqs(Channels, MaxChannels)}
    \cup {[BaseDoc EXCEPT !.nodes = nodes, !.scenes = <<<<0>>>>,
                          !.animations = <<<<>>, channels>>] :
            nodes \in CyclicLayouts,
            channels \in Seqs({ChannelOf("Linear", "standard", "translation", n) :
                                  n \in {0, 1, 2}}, MaxChannels)}

\* Documents that differ in their skins: node 0 carries mesh 0 and skin 0,
\* whose joints are node 1 (its child) or node 2 (in no scene).
SkinDocs ==
    {[BaseDoc EXCEPT
        !.meshes = <<<<PrimitiveOf("Points", 0, NoIndices, None)>>>>,
        !.nodes = <<NodeOf(<<1>>, 0, 0, 0), NodeOf(<<>>, 1, 0, None),
                    NodeOf(<<>>, 2, None, None)>>,
        !.scenes = <<<<0>>, <<0>>>>,
        !.skins = [k \in DOMAIN ibms |->
                     [inverse_bind_matrices |-> ibms[k], joints |-> <<joint>>]]] :
        ibms \in [1..1 -> BOOLEAN] \cup [1..2 -> BOOLEAN], joint \in {1, 2}}

\* Documents with one material and two nodes, each with a mesh of one
\* primitive that refers to the material or to none, that differ in the
\* scenes the nodes are in.
SceneDocs ==
    {[BaseDoc EXCEPT
        !.materials = <<MaterialOf(None, None, None)>>,
        !.meshes = <<<<PrimitiveOf("Points", 0, NoIndices, first)>>,
                     <<PrimitiveOf("Points", 0, NoIndices, second)>>>>,
        !.nodes = <<NodeOf(<<>>, 0, 0, None), NodeOf(<<>>, 1, 1, None)>>,
        !.scenes = scenes] :
        first \in {None, 0}, second \in {None, 0},
        scenes \in {<<>>, <<<<0>>>>, <<<<1>>>>, <<<<0>>, <<1>>>>, <<<<0, 1>>>>,
                    <<<<1>>, <<0>>, <<0, 1>>>>}}

Docs ==
    BufferDocs \cup MeshDocs \cup NodeDocs \cup TextureDocs
        \cup AnimationDocs \cup SkinDocs \cup MaterialDocs \cup SceneDocs

InitLoad ==
    /\ pc = "load_entry"
    /\ doc \in Docs
    /\ ld = LoadEntry
    /\ labeled_assets = EmptyMap
    /\ default_asset = None
    /\ default_sets = 0
    /\ warnings = <<>>
    /\ err = NoError
    /\ IdleResolve
    /\ IdleAccessor

\* line 334: gltf::Gltf::from_slice(bytes)?
ParseDocument ==
    /\ pc = "load_entry"
    /\ LET next == Propagate(IF doc.parse_ok THEN Ok(doc)
                             ELSE Err(GltfError("Gltf", None)), "buffers")
       IN /\ pc' = next.pc
          /\ err' = next.err
    /\ UNCHANGED <<doc, ld, labeled_assets, default_asset, default_sets,
                   warnings, resolveVars, accessorVars>>

\* line 335: load_buffers(..).await?
LoadBuffers ==
    /\ pc = "buffers"
    /\ LET outcome == load_buffers(doc, 1, <<>>)
           next == Propagate(outcome, "materials")
       IN /\ pc' = next.pc
          /\ err' = next.err
          /\ ld' = IF outcome.ok THEN [ld EXCEPT !.buffer_data = outcome.value]
                   ELSE ld
    /\ UNCHANGED <<doc, labeled_assets, default_asset, default_sets,
                   warnings, resolveVars, accessorVars>>

\* lines 337-358: the materials and the set of linear textures
LoadMaterials ==
    /\ pc = "materials"
    /\ labeled_assets' =
          [l \in DOMAIN labeled_assets
                   \cup {material_label(k - 1) : k \in DOMAIN doc.materials} |->
             IF l \in {material_label(k - 1) : k \in DOMAIN doc.materials}
             THEN [material |-> l.i] ELSE labeled_assets[l]]
    /\ ld' = [ld EXCEPT
                !.materials = [k \in DOMAIN doc.materials |-> material_label(k - 1)],
                !.linear_textures = LinearTextures(doc)]
    /\ pc' = "animations"
    /\ UNCHANGED <<doc, default_asset, default_sets, warnings, err,
                   resolveVars, accessorVars>>

\* The clips registered under their labels.
RECURSIVE RegisterClips(_, _)
RegisterClips(clips, assets) ==
    IF clips = <<>> THEN assets
    ELSE RegisterClips(Tail(clips),
            SetLabeledAsset(assets, animation_label(Head(clips).index),
                            [curves |-> Head(clips).curves]))

\* lines 360-453: the paths of the nodes of the scenes and the animations
LoadAnimations ==
    /\ pc = "animations"
    /\ LET paths == ScenePaths(doc, SceneRoots(doc, 1), EmptyMap)
           start == [warnings |-> warnings, animation_roots |-> {},
                     curves |-> <<>>, clips |-> <<>>]
           outcome == IF paths.ok
                      THEN load_animations(doc, paths.value, 1, start)
                      ELSE Fail(paths.err, start)
           next == Propagate(outcome, "meshes")
       IN /\ pc' = IF ~paths.ok THEN "panicked" ELSE next.pc
          /\ err' = IF ~paths.ok THEN err ELSE next.err
          /\ warnings' = outcome.value.warnings
          /\ labeled_assets' = RegisterClips(outcome.value.clips, labeled_assets)
          /\ ld' = [ld EXCEPT
                      !.paths = IF paths.ok THEN paths.value ELSE @,
                      !.animation_roots = outcome.value.animation_roots,
                      !.animations =
                          [k \in DOMAIN outcome.value.clips |->
                              animation_label(outcome.value.clips[k].index)]]
    /\ UNCHANGED <<doc, default_asset, default_sets, resolveVars, accessorVars>>

\* the primitive the mesh loop is at
CurrentPrimitive == doc.meshes[ld.mesh_i + 1][ld.prim_j + 1]

\* lines 459-463: the label and the topology of the next primitive
BeginPrimitive ==
    /\ pc = "meshes"
    /\ ld.mesh_i < Len(doc.meshes)
    /\ ld.prim_j < Len(doc.meshes[ld.mesh_i + 1])
    /\ LET topology == get_primitive_topology(CurrentPrimitive.mode)
           next == Propagate(topology, "attributes")
       IN /\ pc' = next.pc
          /\ err' = next.err
          /\ ld' = IF topology.ok
                   THEN [ld EXCEPT !.primitive_label =
                                       primitive_label(ld.mesh_i, ld.prim_j),
                                   !.mesh = NewMesh(topology.value),
                                   !.attrs_left = CurrentPrimitive.attrs,
                                   !.attr_log = <<>>]
                   ELSE ld
    /\ UNCHANGED <<doc, labeled_assets, default_asset, default_sets,
                   warnings, resolveVars, accessorVars>>

\* The accessors the attributes of the documents refer to: floats and bytes,
\* three or four wide, normalized or not, sparse or not, resolvable or not,
\* each with MaxVertices elements that alternate between the two stored ones.
AttributeAccessors ==
    {WithData(format,
              [k \in 1..MaxVertices |->
                  [c \in 1..Width(format.dimensions) |->
                      IF k % 2 = 1 THEN c - 1
                      ELSE MaxOf(format.data_type) - (c - 1)]]) :
        format \in {f \in AccessorFormats :
                        /\ f.data_type \in {"F32", "U8"}
                        /\ f.dimensions \in {"Vec3", "Vec4"}}}

\* primitive.attributes() iterates a map ordered by semantic.
SemanticOrder ==
    <<"ExtrasConfigured", "ExtrasOther", "Positions", "Normals", "Tangents",
      "Colors0", "Colors1", "TexCoords0", "Joints0", "Weights0">>

\* the semantics the iteration can still yield after those in the log
LaterSemantics(attr_log) ==
    {SemanticOrder[k] : k \in {k \in DOMAIN SemanticOrder :
        \A l \in DOMAIN attr_log :
            \E m \in 1..(k - 1) : SemanticOrder[m] = attr_log[l].semantic}}

\* lines 466-530: one (semantic, accessor) of the primitive's attributes
ReadAttribute ==
    /\ pc = "attributes"
    /\ ld.attrs_left > 0
    /\ \E semantic \in LaterSemantics(ld.attr_log) :
         \E a \in AttributeAccessors :
            LET read == ReadVertexAttribute(ld.mesh, semantic, a)
            IN /\ ld' = [ld EXCEPT
                           !.mesh = read.mesh,
                           !.attrs_left = @ - 1,
                           !.attr_log = Append(@, [semantic |-> semantic,
                                                   outcome |-> read.outcome,
                                                   view_ok |-> read.view_ok])]
               /\ warnings' =
                     IF read.warning = NoWarning THEN warnings
                     ELSE IF read.warning = "Vertex attribute has format but expected"
                     THEN Append(warnings,
                                 [kind |-> read.warning,
                                  semantic |-> semantic,
                                  loaded_format |-> read.loaded_format,
                                  expected_format |->
                                      TargetOf(semantic).attribute.format,
                                  primitive |-> <<ld.mesh_i, ld.prim_j>>])
                     ELSE Append(warnings,
                                 [kind |-> read.warning,
                                  semantic |-> semantic,
                                  primitive |-> <<ld.mesh_i, ld.prim_j>>])
    /\ UNCHANGED <<pc, err, doc, labeled_assets, default_asset, default_sets,
                   resolveVars, accessorVars>>

\* reader.read_tangents(): the primitive has a tangent accessor whose
\* elements resolve
ReadsTangents(attr_log) ==
    \E k \in DOMAIN attr_log :
        attr_log[k].semantic = "Tangents" /\ attr_log[k].view_ok

\* lines 532-585: indices, flat normals, tangents; the mesh is registered
\* under the primitive's label
FinishPrimitive ==
    /\ pc = "attributes"
    /\ ld.attrs_left = 0
    /\ LET primitive == CurrentPrimitive
           flat == FlatNormals(ReadIndices(ld.mesh, primitive.indices,
                                           primitive.index_values))
           mesh == Tangents(flat.mesh,
                            ReadsTangents(ld.attr_log),
                            HasNormalMap(doc, primitive.material),
                            primitive.tangents_generate)
           label == ld.primitive_label
       IN IF flat.panicked
          THEN /\ pc' = "panicked"
               /\ ld' = [ld EXCEPT
                           !.mesh = flat.mesh,
                           !.vertex_count_before = flat.vertex_count_before]
               /\ UNCHANGED labeled_assets
          ELSE /\ pc' = "meshes"
               /\ labeled_assets' = SetLabeledAsset(labeled_assets, label, mesh)
               /\ ld' = [ld EXCEPT
                           !.mesh = mesh,
                           !.vertex_count_before = flat.vertex_count_before,
                           !.vertex_count_after = flat.vertex_count_after,
                           !.primitives =
                               Append(@, [mesh |-> label,
                                          material |->
                                              MaterialHandle(doc, primitive.material)]),
                           !.prim_j = @ + 1]
    /\ UNCHANGED <<doc, default_asset, default_sets, warnings, err,
                   resolveVars, accessorVars>>

\* lines 588-595: the mesh is registered after its last primitive
FinishMesh ==
    /\ pc = "meshes"
    /\ ld.mesh_i < Len(doc.meshes)
    /\ ld.prim_j = Len(doc.meshes[ld.mesh_i + 1])
    /\ labeled_assets' = SetLabeledAsset(labeled_assets, mesh_label(ld.mesh_i),
                                         [primitives |-> ld.primitives])
    /\ ld' = [ld EXCEPT !.meshes = Append(@, mesh_label(ld.mesh_i)),
                        !.mesh_i = @ + 1,
                        !.prim_j = 0,
                        !.primitives = <<>>]
    /\ UNCHANGED <<pc, err, doc, default_asset, default_sets, warnings,
                   resolveVars, accessorVars>>

\* The resolved nodes registered under their labels.
RECURSIVE RegisterNodes(_, _)
RegisterNodes(resolved, assets) ==
    IF resolved = <<>> THEN assets
    ELSE RegisterNodes(Tail(resolved),
            SetLabeledAsset(assets, Head(resolved).label, Head(resolved).node))

\* lines 598-644: the nodes are resolved and registered, the named nodes
\* are looked up
LoadNodes ==
    /\ pc = "meshes"
    /\ ld.mesh_i = Len(doc.meshes)
    /\ LET resolved == resolve_node_hierarchy(DocIntermediate(doc))
           nodes == NodeHandles(resolved)
       IN /\ labeled_assets' = RegisterNodes(resolved, labeled_assets)
          /\ ld' = [ld EXCEPT
                      !.nodes = nodes,
                      !.named_nodes =
                          NamedNodes(NamedNodesIntermediate(doc), nodes)]
    /\ pc' = IF SerialTextures(doc) /\ doc.textures = <<>>
             THEN "skins" ELSE "textures"
    /\ UNCHANGED <<doc, default_asset, default_sets, warnings, err,
                   resolveVars, accessorVars>>

\* lines 650-661: the next texture on the serial path
LoadTextureSerial ==
    /\ pc = "textures"
    /\ SerialTextures(doc)
    /\ ld.tex_i < Len(doc.textures)
    /\ LET loaded == load_texture(doc, ld.tex_i, ld.linear_textures)
           next == Propagate(loaded,
                             IF ld.tex_i + 1 = Len(doc.textures)
                             THEN "skins" ELSE "textures")
       IN /\ pc' = next.pc
          /\ err' = next.err
          /\ labeled_assets' =
                IF loaded.ok
                THEN SetLabeledAsset(labeled_assets, loaded.value.label,
                                     loaded.value.texture)
                ELSE labeled_assets
          /\ ld' = IF loaded.ok THEN [ld EXCEPT !.tex_i = @ + 1] ELSE ld
    /\ UNCHANGED <<doc, default_asset, default_sets, warnings,
                   resolveVars, accessorVars>>

\* lines 664-681: one task per texture is spawned in the scope
SpawnTextureTasks ==
    /\ pc = "textures"
    /\ ~SerialTextures(doc)
    /\ ld' = [ld EXCEPT !.tasks = {k - 1 : k \in DOMAIN doc.textures},
                        !.results = <<>>]
    /\ pc' = "texture_scope"
    /\ UNCHANGED <<doc, labeled_assets, default_asset, default_sets,
                   warnings, err, resolveVars, accessorVars>>

\* A plausible slip: a task registers its texture as soon as it is decoded.
TextureTaskRegisters ==
    /\ pc = "texture_scope"
    /\ \E i \in ld.tasks :
          LET loaded == load_texture(doc, i, ld.linear_textures)
          IN /\ ld' = [ld EXCEPT !.tasks = @ \ {i},
                                 !.results = Append(@, loaded)]
             /\ labeled_assets' =
                   IF loaded.ok
                   THEN SetLabeledAsset(labeled_assets, loaded.value.label,
                                        loaded.value.texture)
                   ELSE labeled_assets
    /\ UNCHANGED <<pc, doc, default_asset, default_sets,
                   warnings, err, resolveVars, accessorVars>>

\* lines 670-679: one of the spawned tasks completes
TextureTaskCompletes ==
    /\ pc = "texture_scope"
    /\ \E i \in ld.tasks :
          ld' = [ld EXCEPT
                   !.tasks = @ \ {i},
                   !.results = Append(@, load_texture(doc, i, ld.linear_textures))]
    /\ UNCHANGED <<pc, doc, labeled_assets, default_asset, default_sets,
                   warnings, err, resolveVars, accessorVars>>

\* lines 682-691: all tasks are done; the results are filtered and registered
JoinTextures ==
    /\ pc = "texture_scope"
    /\ ld.tasks = {}
    /\ LET merged == RegisterTextures(ld.results,
                                      [labeled_assets |-> labeled_assets,
                                       warnings |-> warnings])
       IN /\ labeled_assets' = merged.labeled_assets
          /\ warnings' = merged.warnings
    /\ pc' = "skins"
    /\ UNCHANGED <<doc, ld, default_asset, default_sets, err,
                   resolveVars, accessorVars>>

\* lines 694-709: the inverse bind poses of the skins
LoadSkins ==
    /\ pc = "skins"
    /\ LET outcome == load_skins(doc, 1, labeled_assets)
       IN /\ labeled_assets' = outcome.value
          /\ pc' = IF outcome.ok THEN "scenes" ELSE "panicked"
    /\ UNCHANGED <<doc, ld, default_asset, default_sets, warnings, err,
                   resolveVars, accessorVars>>

\* lines 711-776: the scenes
LoadScenes ==
    /\ pc = "scenes"
    /\ LET outcome == load_scenes(doc, 1,
                          [labeled_assets |-> labeled_assets,
                           scenes |-> <<>>,
                           default_material_loads |-> 0])
       IN /\ labeled_assets' = outcome.value.labeled_assets
          /\ ld' = [ld EXCEPT
                      !.scenes = outcome.value.scenes,
                      !.default_material_loads =
                          outcome.value.default_material_loads]
          /\ pc' = IF outcome.ok THEN "default" ELSE "panicked"
    /\ UNCHANGED <<doc, default_asset, default_sets, warnings, err,
                   resolveVars, accessorVars>>

\* lines 778-797: the assembled Gltf is set as the default asset; Ok(())
SetDefaultAsset ==
    /\ pc = "default"
    /\ default_asset' =
          [scenes |-> ld.scenes, meshes |-> ld.meshes,
           materials |-> ld.materials, nodes |-> ld.nodes,
           named_nodes |-> ld.named_nodes, animations |-> ld.animations]
    /\ default_sets' = default_sets + 1
    /\ pc' = "done"
    /\ UNCHANGED <<doc, ld, labeled_assets, warnings, err,
                   resolveVars, accessorVars>>

NextLoad ==
    \/ ParseDocument \/ LoadBuffers \/ LoadMaterials \/ LoadAnimations
    \/ BeginPrimitive \/ ReadAttribute \/ FinishPrimitive \/ FinishMesh
    \/ LoadNodes
    \/ LoadTextureSerial \/ SpawnTextureTasks \/ TextureTaskCompletes
    \/ JoinTextures
    \/ LoadSkins \/ LoadScenes \/ SetDefaultAsset

SpecLoad == InitLoad /\ [][NextLoad]_vars

(***************************************************************************)
(* Vocabulary of the claims about resolve_node_hierarchy                    *)
(***************************************************************************)
NodeCount == Len(nodes_intermediate)

Declared(i) == nodes_intermediate[i + 1].children

DeclaredSet(i) == Range(Declared(i))

\* Everything reachable from the indices of S through declared child lists.
RECURSIVE Closure(_)
Closure(S) ==
    LET T == S \cup UNION {DeclaredSet(j) : j \in S \cap (0..(NodeCount - 1))}
    IN IF T = S THEN S ELSE Closure(T)

Descendants(i) == Closure(DeclaredSet(i))

OnCycle(i) == i \in Descendants(i)

Acyclic == \A i \in 0..(NodeCount - 1) : ~OnCycle(i)

AllInRange == \A i \in 0..(NodeCount - 1) : \A c \in DeclaredSet(i) : c < NodeCount

HasDangling == ~AllInRange

\* the number of times index c is listed in the child list of node i
Listed(i, c) == Cardinality({k \in DOMAIN Declared(i) : Declared(i)[k] = c})

\* no index is listed by two different nodes
NoSharedChild ==
    \A c \in 0..(NodeCount - 1) :
        Cardinality({i \in 0..(NodeCount - 1) : c \in DeclaredSet(i)}) <= 1

\* no index is listed twice in one child list
NoDuplicateChild ==
    \A i \in 0..(NodeCount - 1) : \A c \in DeclaredSet(i) : Listed(i, c) = 1

\* the node list is a forest: every reference in range, every node listed
\* at most once in all, no cycle
Forest == AllInRange /\ Acyclic /\ NoSharedChild /\ NoDuplicateChild

\* node i lies on a cycle or has a node on a cycle among its descendants
DependsOnCycle(i) ==
    \E j \in (Descendants(i) \cup {i}) \cap (0..(NodeCount - 1)) : OnCycle(j)

\* node i, or one of its descendants, declares a child out of range
DependsOnDangling(i) == \E d \in Descendants(i) : d >= NodeCount

\* the payloads found in a resolved node and all the nodes nested in it
RECURSIVE TreeData(_)
TreeData(node) ==
    {node.data} \cup UNION {TreeData(node.children[k]) : k \in DOMAIN node.children}

\* the original indices of the returned entries, read off their labels
ResultLabels == {result[k].label.i : k \in DOMAIN result}

Ascending ==
    \A k, l \in DOMAIN result : k < l => result[k].label.i < result[l].label.i

\* the output holds every node once, in order, with its declared child count
CompleteOutput ==
    /\ Len(result) = NodeCount
    /\ \A k \in DOMAIN result :
          /\ result[k].label = node_label(k - 1)
          /\ result[k].node.data = k - 1
          /\ Len(result[k].node.children) = Len(Declared(k - 1))
    /\ Ascending

\* C1 (as stated): for every acyclic node list the output has as many
\* entries as the input, each with a child count equal to the length of its
\* declared child-index list, in ascending original-index order.
C1_AcyclicComplete ==
    (pc = "resolve_done" /\ Acyclic) => CompleteOutput

\* C1 (amended): for every node list that is a forest (all child indices in
\* range, no cycle, no index listed twice, in one list or in two) the output
\* has as many entries as the input, each with a child count equal to the
\* length of its declared child-index list, in ascending index order.
C1_ForestComplete ==
    (pc = "resolve_done" /\ Forest) => CompleteOutput

\* a forest with a chain of depth two has been resolved
C1_Witness ==
    /\ pc = "resolve_done"
    /\ Forest
    /\ \E i \in 0..(NodeCount - 1) :
          \E c \in DeclaredSet(i) : Declared(c) # <<>>

\* C2: no node on a cycle of child references, and no node with such a node
\* among its descendants, appears in the output, neither as an entry nor
\* nested in an entry's children; a 2-cycle resolves to the empty sequence.
C2_CyclesExcised ==
    pc = "resolve_done" =>
        /\ \A k \in DOMAIN result :
              /\ ~DependsOnCycle(result[k].label.i)
              /\ \A d \in TreeData(result[k].node) : ~DependsOnCycle(d)
        /\ (NodeCount = 2 /\ Declared(0) = <<1>> /\ Declared(1) = <<0>>)
              => result = <<>>

\* a list holding a cycle was resolved and some other node was returned
C2_Witness ==
    /\ pc = "resolve_done"
    /\ \E i \in 0..(NodeCount - 1) : OnCycle(i)
    /\ result # <<>>

\* C3 (as stated): for every node list with a child index out of range the
\* function does not crash and returns exactly the nodes that do not depend
\* on an out-of-range child.
C3_DanglingExact ==
    HasDangling =>
        /\ pc # "panicked"
        /\ pc = "resolve_done" =>
              ResultLabels = {i \in 0..(NodeCount - 1) : ~DependsOnDangling(i)}

\* C3 (amended): for every node list with a child index out of range the
\* function does not crash and no node that depends on an out-of-range child
\* is returned; when the list moreover has no cycle and no index listed by
\* two different nodes, it returns exactly the nodes that do not depend on
\* an out-of-range child, in ascending index order.
C3_DanglingDropped ==
    HasDangling =>
        /\ pc # "panicked"
        /\ pc = "resolve_done" =>
              /\ \A i \in ResultLabels : ~DependsOnDangling(i)
              /\ (Acyclic /\ NoSharedChild) =>
                    /\ ResultLabels =
                         {i \in 0..(NodeCount - 1) : ~DependsOnDangling(i)}
                    /\ Len(result) = Cardinality(ResultLabels)
                    /\ Ascending

\* a node holds a dangling reference, another reaches it through a child,
\* and a third node was returned
C3_Witness ==
    /\ pc = "resolve_done"
    /\ HasDangling /\ Acyclic /\ NoSharedChild
    /\ \E i \in 0..(NodeCount - 1) :
          /\ DependsOnDangling(i)
          /\ \A c \in DeclaredSet(i) : c < NodeCount
    /\ result # <<>>

(***************************************************************************)
(* Claims about the accessor decoder                                        *)
(***************************************************************************)
\* C9: a vertex-attribute accessor that declares itself sparse always fails
\* with UnsupportedFormat; no element of a sparse accessor is decoded into
\* vertex-attribute values.
C9_SparseRejected ==
    (pc = "convert_done" /\ accessor.sparse) =>
        /\ ~converted.ok
        /\ converted.err = "UnsupportedFormat"

(***************************************************************************)
(* Claims about load_gltf                                                   *)
(***************************************************************************)
\* the nodes of the document that carry a name no other node carries
UniquelyNamed ==
    {k \in DOMAIN doc.nodes :
        /\ doc.nodes[k].name # None
        /\ \A l \in DOMAIN doc.nodes :
              doc.nodes[l].name = doc.nodes[k].name => l = k}

\* C4: in the assembled document a name carried by a node the resolver
\* dropped has no handle in named_nodes, and a name carried by a resolved
\* node with original index i maps to the handle labelled Node{i}.
C4_NamedNodesExact ==
    pc = "done" =>
        \A k \in UniquelyNamed :
            LET name == doc.nodes[k].name
            IN IF node_label(k - 1) \in Range(default_asset.nodes)
               THEN /\ name \in DOMAIN default_asset.named_nodes
                    /\ default_asset.named_nodes[name] = node_label(k - 1)
               ELSE name \notin DOMAIN default_asset.named_nodes

\* the condition of the concurrent texture path, as the claims state it
ConcurrentPath == Len(doc.textures) # 1 /\ ~doc.wasm32

\* the scope of the texture tasks has been left
TexturesJoined == pc \in {"skins", "scenes", "default", "done"}

FailedTextures == {k \in DOMAIN doc.textures : doc.textures[k] # "image"}

TextureWarnings ==
    {w \in DOMAIN warnings : warnings[w].kind = "Error loading glTF texture"}

\* the document differs from the empty one in its textures and target only
TexturesOnly == [doc EXCEPT !.textures = <<>>, !.wasm32 = FALSE] = BaseDoc

DecodedTexture(i) == [image |-> i, is_srgb |-> i \notin LinearTextures(doc)]

\* C6: on the concurrent texture path, whatever the completion order of the
\* tasks, each texture that decodes is registered under the label
\* Texture{i} of its own document index i, so the association of labels
\* and textures is a function of the document alone.
C6_LabelsByIndex ==
    (ConcurrentPath /\ TexturesJoined) =>
        /\ \A k \in DOMAIN doc.textures \ FailedTextures :
              /\ texture_label(k - 1) \in DOMAIN labeled_assets
              /\ labeled_assets[texture_label(k - 1)] = DecodedTexture(k - 1)
        /\ \A l \in DOMAIN labeled_assets :
              l.kind = "Texture" =>
                  /\ l.i + 1 \in DOMAIN doc.textures \ FailedTextures
                  /\ labeled_assets[l] = DecodedTexture(l.i)

\* two textures decoded and the later one completed first
C6_Witness ==
    /\ ConcurrentPath
    /\ pc = "done"
    /\ \E a, b \in DOMAIN ld.results :
          /\ a < b
          /\ ld.results[a].ok /\ ld.results[b].ok
          /\ ld.results[a].value.label.i > ld.results[b].value.label.i

\* the condition of the serial texture path, as the claim states it
SerialPath == Len(doc.textures) = 1 \/ doc.wasm32

RegisteredTextures == {l \in DOMAIN labeled_assets : l.kind = "Texture"}

\* the index of the first texture that fails to decode
FirstFailed ==
    CHOOSE k \in FailedTextures : \A l \in FailedTextures : k <= l

\* C7: on the serial path the textures are decoded in declaration order,
\* and a texture that fails to decode (an invalid MIME type, an image that
\* does not decode) ends the load with that error: no texture declared
\* after it is registered and no later step runs.
C7_SerialFailureAborts ==
    /\ [](SerialPath =>
            /\ pc = "textures" =>
                  RegisteredTextures = {texture_label(i) : i \in 0..(ld.tex_i - 1)}
            /\ FailedTextures # {} =>
                  /\ ~TexturesJoined
                  /\ RegisteredTextures \subseteq
                        {texture_label(i) : i \in 0..(FirstFailed - 2)}
                  /\ default_sets = 0
                  /\ (TexturesOnly /\ pc = "failed") =>
                        /\ err = GltfError(TextureError(doc.textures[FirstFailed]),
                                           None)
                        /\ RegisteredTextures =
                              {texture_label(i) : i \in 0..(FirstFailed - 2)})
    /\ [][pc # "failed"]_vars

\* the second of three textures had a MIME type that is not an image's
C7_Witness ==
    /\ SerialPath
    /\ Len(doc.textures) >= 3
    /\ doc.textures[2] = "invalid_mime_type"
    /\ pc = "failed"
    /\ err = GltfError("ImageError", None)
    /\ RegisteredTextures = {texture_label(0)}

\* C8: whenever load_gltf ends with an error the default asset has not been
\* set; it is set once, as the last step, and only on a load without an
\* error.
C8_DefaultAssetAtomic ==
    /\ [](/\ default_sets <= 1
          /\ (default_sets = 1) <=> (pc = "done")
          /\ pc \in {"failed", "panicked"} => default_sets = 0
          /\ (err # NoError) <=> (pc = "failed"))
    /\ [][/\ pc \notin {"done", "failed", "panicked"}
          /\ default_sets' # default_sets => pc = "default"]_vars

\* the load ended with an error after assets had been registered
C8_Witness ==
    /\ pc = "failed"
    /\ err # NoError
    /\ DOMAIN labeled_assets # {}
    /\ default_sets = 0

\* the entries of the attribute log whose conversion failed
FailedAttributes ==
    {k \in DOMAIN ld.attr_log :
        /\ TargetOf(ld.attr_log[k].semantic).some
        /\ ld.attr_log[k].outcome \in {"MalformedData", "UnsupportedFormat"}}

\* C10: for every recognised vertex attribute whose decode or conversion
\* fails the failure is not fatal: the attribute is absent from the
\* primitive's mesh, a diagnostic is emitted, the remaining attributes are
\* processed and the primitive is registered under its label.
C10_FailedAttributeOmitted ==
    \A k \in FailedAttributes :
        LET semantic == ld.attr_log[k].semantic
        IN /\ err = NoError
           /\ pc \notin {"failed", "panicked"}
           /\ \E w \in DOMAIN warnings :
                 /\ warnings[w].kind \in {"Malformed vertex attribute data",
                                          "Unsupported vertex attribute format"}
                 /\ warnings[w].semantic = semantic
           /\ TargetOf(semantic).attribute.name \notin DOMAIN ld.mesh.attributes
           /\ pc # "attributes" =>
                 /\ ld.attrs_left = 0
                 /\ ld.primitive_label \in DOMAIN labeled_assets
                 /\ labeled_assets[ld.primitive_label] = ld.mesh

\* the modes the loader has a topology for
SupportedModes == {"Points", "Lines", "LineStrip", "Triangles", "TriangleStrip"}

\* the primitives, as (mesh, primitive) index pairs, whose mode is not one
UnsupportedPrimitives ==
    {ij \in UNION {{<<i, j>> : j \in 0..(Len(doc.meshes[i + 1]) - 1)} :
                      i \in 0..(Len(doc.meshes) - 1)} :
        doc.meshes[ij[1] + 1][ij[2] + 1].mode \notin SupportedModes}

\* (i, j) comes before (k, l) in document order, or is it
AtOrBefore(ij, kl) == ij[1] < kl[1] \/ (ij[1] = kl[1] /\ ij[2] <= kl[2])

FirstUnsupported ==
    CHOOSE ij \in UnsupportedPrimitives :
        \A kl \in UnsupportedPrimitives : AtOrBefore(ij, kl)

\* C11: if a primitive of a mesh has a mode other than points, lines, line
\* strip, triangles or triangle strip, load_gltf fails with
\* UnsupportedPrimitive when it comes to it: its attributes are never read,
\* and neither that primitive nor any later mesh, node, texture, skin or
\* scene is registered.
C11_UnsupportedPrimitiveAborts ==
    /\ [](UnsupportedPrimitives # {} =>
            /\ pc \notin {"textures", "texture_scope", "skins", "scenes",
                          "default", "done"}
            /\ pc = "attributes" =>
                  <<ld.mesh_i, ld.prim_j>> # FirstUnsupported
            /\ \A l \in DOMAIN labeled_assets :
                  /\ l.kind \notin {"Node", "Texture", "Skin", "Scene"}
                  /\ l.kind = "Mesh" => l.i < FirstUnsupported[1]
                  /\ l.kind = "Mesh/Primitive" =>
                        /\ <<l.i, l.j>> # FirstUnsupported
                        /\ AtOrBefore(<<l.i, l.j>>, FirstUnsupported)
            /\ default_sets = 0)
    /\ [][(/\ pc = "meshes"
           /\ UnsupportedPrimitives # {}
           /\ <<ld.mesh_i, ld.prim_j>> = FirstUnsupported)
          => (/\ pc' = "failed"
              /\ err' = GltfError("UnsupportedPrimitive", None)
              /\ labeled_assets' = labeled_assets)]_vars

\* the load failed at the second primitive of the second mesh, after the
\* first mesh had been registered
C11_Witness ==
    /\ pc = "failed"
    /\ err = GltfError("UnsupportedPrimitive", None)
    /\ FirstUnsupported = <<1, 1>>
    /\ mesh_label(0) \in DOMAIN labeled_assets
    /\ primitive_label(1, 0) \in DOMAIN labeled_assets

\* the channels, as (animation, channel) index pairs, that miss sampler
\* input or output data
MissingSamplerChannels ==
    {ak \in UNION {{<<a, k>> : k \in 0..(Len(doc.animations[a + 1]) - 1)} :
                      a \in 0..(Len(doc.animations) - 1)} :
        \/ doc.animations[ak[1] + 1][ak[2] + 1].input = "missing"
        \/ doc.animations[ak[1] + 1][ak[2] + 1].output = "missing"}

\* those of them the loop does not leave before it looks at the missing
\* data: the input is looked at first, and a sparse input ends the iteration
FatalChannels ==
    {ak \in MissingSamplerChannels :
        doc.animations[ak[1] + 1][ak[2] + 1].input # "sparse"}

FirstFatalChannel ==
    CHOOSE ak \in FatalChannels : \A bl \in FatalChannels : AtOrBefore(ak, bl)

\* the animations are behind the load
AnimationsPassed ==
    pc \in {"meshes", "attributes", "textures", "texture_scope", "skins",
            "scenes", "default", "done"}

\* C12 (as stated): for every animation channel whose sampler input data or
\* output data is missing, load_gltf fails with MissingAnimationSampler and
\* the load is aborted.
C12_MissingSamplerFatal ==
    MissingSamplerChannels # {} => ~AnimationsPassed

\* C12 (amended): for every animation channel whose sampler input data is
\* missing, or whose input is a standard accessor and whose output data is
\* missing, load_gltf fails with MissingAnimationSampler carrying the index
\* of the containing animation: no clip of that or a later animation and no
\* mesh, node or scene is produced.
C12_MissingSamplerAborts ==
    /\ [](FatalChannels # {} =>
            /\ ~AnimationsPassed
            /\ default_sets = 0
            /\ \A l \in DOMAIN labeled_assets :
                  /\ l.kind \notin {"Mesh", "Mesh/Primitive", "Node", "Texture",
                                    "Skin", "Scene"}
                  /\ l.kind = "Animation" => l.i < FirstFatalChannel[1])
    /\ [][(pc = "animations" /\ FatalChannels # {})
          => (/\ pc' = "failed"
              /\ err' = GltfError("MissingAnimationSampler",
                                  FirstFatalChannel[1]))]_vars

\* the second animation had a channel without output data; the clip of the
\* first animation had been registered
C12_Witness ==
    /\ pc = "failed"
    /\ err = GltfError("MissingAnimationSampler", 1)
    /\ \E k \in DOMAIN doc.animations[2] :
          /\ doc.animations[2][k].input = "standard"
          /\ doc.animations[2][k].output = "missing"
    /\ animation_label(0) \in DOMAIN labeled_assets

\* the nodes the document's nodes in S list as children
DocBelow(S) == UNION {Range(doc.nodes[i + 1].children) : i \in S}

RECURSIVE DocDescend(_, _)
DocDescend(S, n) ==
    IF n = 0 THEN S ELSE DocDescend(S \cup DocBelow(S), n - 1)

DocDescendants(i) == DocDescend(DocBelow({i}), Len(doc.nodes))

\* the nodes on a cycle of child references, and those above one
CycleNodes ==
    {i \in 0..(Len(doc.nodes) - 1) :
        \E c \in DocDescendants(i) \cup {i} : c \in DocDescendants(c)}

\* those of them resolve_node_hierarchy leaves out of its result
DroppedNodes ==
    {i \in CycleNodes :
        \A k \in DOMAIN resolve_node_hierarchy(DocIntermediate(doc)) :
            resolve_node_hierarchy(DocIntermediate(doc))[k].label # node_label(i)}

\* the channels with readable input and output whose target node is dropped
DroppedTargetChannels ==
    {ak \in UNION {{<<a, k>> : k \in 0..(Len(doc.animations[a + 1]) - 1)} :
                      a \in 0..(Len(doc.animations) - 1)} :
        LET channel == doc.animations[ak[1] + 1][ak[2] + 1]
        IN /\ channel.node \in DroppedNodes
           /\ channel.input = "standard"
           /\ channel.output \in {"translation", "rotation", "scale"}}

\* C13: an animation channel whose target node was dropped by the
\* node-hierarchy resolver (it is on a cycle, or above one) is skipped with a diagnostic, contributes no
\* curve to its clip and marks no animation root.
C13_DroppedTargetSkipped ==
    (DroppedTargetChannels # {} /\ FatalChannels = {}) =>
        /\ pc # "panicked"
        /\ AnimationsPassed =>
              \A ak \in DroppedTargetChannels :
                 LET channel == doc.animations[ak[1] + 1][ak[2] + 1]
                     clip == labeled_assets[animation_label(ak[1])]
                 IN /\ \E w \in DOMAIN warnings :
                          /\ warnings[w].kind = "missing_path"
                          /\ warnings[w].animation = ak[1]
                    /\ channel.node \notin DOMAIN ld.paths
                    /\ Len(clip.curves) < Len(doc.animations[ak[1] + 1])
                    /\ Len(doc.animations[ak[1] + 1]) = 1 =>
                          ld.animation_roots = {}

\* the skins, by index, without an inverse-bind-matrices accessor
SkinsWithoutMatrices ==
    {i \in 0..(Len(doc.skins) - 1) : ~doc.skins[i + 1].inverse_bind_matrices}

\* C14: a skin without an inverse-bind-matrices accessor is fatal: no
\* Skin{i} asset is registered for it, with substitute matrices or any,
\* and the load does not complete.
C14_MissingMatricesFatal ==
    /\ [](SkinsWithoutMatrices # {} =>
            /\ pc \notin {"scenes", "default", "done"}
            /\ default_sets = 0
            /\ \A l \in DOMAIN labeled_assets :
                  l.kind = "Skin" =>
                      \A i \in SkinsWithoutMatrices : l.i < i)
    /\ [][(pc = "skins" /\ SkinsWithoutMatrices # {})
          => pc' = "panicked"]_vars

\* the second skin had no matrices; the first had been registered
C14_Witness ==
    /\ pc = "panicked"
    /\ SkinsWithoutMatrices = {1}
    /\ skin_label(0) \in DOMAIN labeled_assets
    /\ skin_label(1) \notin DOMAIN labeled_assets

\* the nodes spawned for the scene at index k (no cycle under its roots)
SpawnedInScene(k) == Spawned(doc, doc.scenes[k + 1], Len(doc.nodes) + 1).value

\* the scenes with a skinned mesh whose skin lists a joint node that is not
\* spawned in the scene
ScenesWithUnspawnedJoint ==
    {k \in 0..(Len(doc.scenes) - 1) :
        /\ Spawned(doc, doc.scenes[k + 1], Len(doc.nodes) + 1).ok
        /\ ~JointsSpawned(doc, SpawnedInScene(k))}

\* C15: every index reference either resolves or is reported as a typed
\* error or warning; a skinned mesh whose skin lists a joint node that was
\* not spawned in the same scene leads to a typed error or a warning, never
\* to a crash.
C15_UnspawnedJointReported ==
    (ScenesWithUnspawnedJoint # {} /\ SkinsWithoutMatrices = {}) =>
        /\ pc # "panicked"
        /\ pc \in {"default", "done"} => warnings # <<>>
        /\ pc = "failed" => err # NoError

(***************************************************************************)
(* Claims about the warnings of resolve_node_hierarchy                      *)
(***************************************************************************)
\* the child references of the list that are out of range
DanglingReferences ==
    {ik \in UNION {{<<i, k>> : k \in DOMAIN Declared(i)} :
                      i \in 0..(NodeCount - 1)} :
        Declared(ik[1])[ik[2]] >= NodeCount}

\* C16 (as stated): for a node list with a dangling child reference, one
\* call of resolve_node_hierarchy logs exactly one structural warning.
C16_OneWarning ==
    (pc = "resolve_done" /\ HasDangling) =>
        rs.unexpected_child_warnings + rs.tree_warnings = 1

\* C16 (amended): for a node list with dangling child references, one call
\* of resolve_node_hierarchy logs the unexpected-child warning exactly once,
\* however many references dangle, and the must-be-a-tree warning exactly
\* once: two warnings in all.
C16_OneWarningOfEachKind ==
    (pc = "resolve_done" /\ HasDangling) =>
        /\ rs.unexpected_child_warnings = 1
        /\ rs.tree_warnings = 1

\* a list with two dangling references in two nodes has been resolved
C16_Witness ==
    /\ pc = "resolve_done"
    /\ \E ik, jl \in DanglingReferences : ik[1] # jl[1]


(***************************************************************************)
(* Claims about the conversions of the decoder                              *)
(***************************************************************************)
\* the accessor's elements were decoded: its buffer view resolves and a
\* float accessor is not flagged as normalized
Decoded ==
    /\ accessor.view_ok
    /\ accessor.data_type \in {"F32", "U32"} => ~accessor.normalized

\* the colour accessors of the claim: three or four components, normalized
\* 8- or 16-bit unsigned or float32
ColorAccessor ==
    /\ accessor.dimensions \in {"Vec3", "Vec4"}
    /\ \/ accessor.data_type \in {"U8", "U16"} /\ accessor.normalized
       \/ accessor.data_type = "F32"

\* the mesh attribute of a semantic is on a fresh mesh after the insertion
\* of the converted values
PresentOnMesh(semantic) ==
    TargetOf(semantic).attribute.name \in
        DOMAIN InsertConverted(NewMesh("TriangleList"),
                               TargetOf(semantic).attribute,
                               converted).attributes

\* C17: for the color-0 semantic every decoded accessor with 3 or 4
\* components that is normalized u8, normalized u16 or float32 is converted
\* to a Float32x4 array with one element per source element, a 3-component
\* source getting alpha exactly 1.0, and the attribute is then present on
\* the mesh.
C17_ColorsToRgbaF32 ==
    (/\ pc = "convert_done"
     /\ conversion = TargetOf("Colors0").conversion
     /\ ColorAccessor
     /\ Decoded) =>
        /\ converted.ok
        /\ converted.value.format = "Float32x4"
        /\ Len(converted.value.elements) = Len(accessor.data)
        /\ \A k \in DOMAIN converted.value.elements :
              /\ DOMAIN converted.value.elements[k] = 1..4
              /\ accessor.dimensions = "Vec3" =>
                    converted.value.elements[k][4] = F32(1, 1)
        /\ PresentOnMesh("Colors0")

C17_Witness ==
    /\ pc = "convert_done"
    /\ conversion = "Rgba"
    /\ accessor.data_type = "U8"
    /\ accessor.dimensions = "Vec3"
    /\ accessor.normalized
    /\ accessor.view_ok
    /\ Len(accessor.data) = MaxItems
    /\ converted.ok
    /\ Len(converted.value.elements) = MaxItems
    /\ converted.value.elements[1] = <<F32(0, 1), F32(1, 255), F32(2, 255), F32(1, 1)>>
    /\ PresentOnMesh("Colors0")


\* C18: for the joints-0 semantic a decoded 4-component non-normalized u8
\* accessor is widened to Uint16x4 with numerically identical values and a
\* 4-component non-normalized u16 accessor passes through unchanged, both
\* ending on the mesh; a normalized u8 accessor is reported and never
\* yields a joint-index attribute on the mesh.
C18_JointIndices ==
    (pc = "convert_done" /\ conversion = TargetOf("Joints0").conversion) =>
        /\ (/\ accessor.data_type \in {"U8", "U16"}
            /\ accessor.dimensions = "Vec4"
            /\ ~accessor.normalized
            /\ Decoded) =>
                /\ converted.ok
                /\ converted.value.format = "Uint16x4"
                /\ converted.value.elements = accessor.data
                /\ PresentOnMesh("Joints0")
        /\ (accessor.data_type = "U8" /\ accessor.normalized) =>
                /\ ~PresentOnMesh("Joints0")
                /\ AttributeWarning("Joints0", TargetOf("Joints0"), converted)
                       # NoWarning

C18_Witness ==
    /\ pc = "convert_done"
    /\ conversion = "JointIndex"
    /\ accessor.data_type = "U8"
    /\ accessor.dimensions = "Vec4"
    /\ ~accessor.normalized
    /\ accessor.view_ok
    /\ Len(accessor.data) = MaxItems
    /\ accessor.data[1] = <<255, 254, 253, 252>>
    /\ converted.ok
    /\ converted.value.format = "Uint16x4"
    /\ converted.value.elements[1] = <<255, 254, 253, 252>>


\* the component type and the component count of the elements a
\* VertexAttributeValues variant stores
StoredAs(format) ==
    CASE format \in {"Float32", "Float32x2", "Float32x3", "Float32x4"} ->
             [data_type |-> "F32",
              width |-> CASE format = "Float32" -> 1 [] format = "Float32x2" -> 2
                          [] format = "Float32x3" -> 3 [] OTHER -> 4]
      [] format \in {"Uint32", "Uint32x2", "Uint32x3", "Uint32x4"} ->
             [data_type |-> "U32",
              width |-> CASE format = "Uint32" -> 1 [] format = "Uint32x2" -> 2
                          [] format = "Uint32x3" -> 3 [] OTHER -> 4]
      [] format \in {"Sint16x2", "Snorm16x2"} -> [data_type |-> "I16", width |-> 2]
      [] format \in {"Sint16x4", "Snorm16x4"} -> [data_type |-> "I16", width |-> 4]
      [] format \in {"Uint16x2", "Unorm16x2"} -> [data_type |-> "U16", width |-> 2]
      [] format \in {"Uint16x4", "Unorm16x4"} -> [data_type |-> "U16", width |-> 4]
      [] format \in {"Sint8x2", "Snorm8x2"} -> [data_type |-> "I8", width |-> 2]
      [] format \in {"Sint8x4", "Snorm8x4"} -> [data_type |-> "I8", width |-> 4]
      [] format \in {"Uint8x2", "Unorm8x2"} -> [data_type |-> "U8", width |-> 2]
      [] format \in {"Uint8x4", "Unorm8x4"} -> [data_type |-> "U8", width |-> 4]

\* C19: the conversion of the generic semantics is a pass-through: the
\* values it produces have the element type, the element count, the order
\* and the values of the decoded accessor, and a decoded non-normalized
\* float32x3 accessor yields a Float32x3 array of identical values.
C19_AnyPassThrough ==
    (pc = "convert_done" /\ conversion = TargetOf("Positions").conversion) =>
        /\ converted.ok =>
              /\ StoredAs(converted.value.format) =
                     [data_type |-> accessor.data_type,
                      width |-> Width(accessor.dimensions)]
              /\ Len(converted.value.elements) = Len(accessor.data)
              /\ converted.value.elements = Items(accessor)
        /\ (/\ accessor.data_type = "F32"
            /\ accessor.dimensions = "Vec3"
            /\ Decoded) =>
                /\ converted.ok
                /\ converted.value.format = "Float32x3"

C19_Witness ==
    /\ pc = "convert_done"
    /\ conversion = "Any"
    /\ accessor.data_type = "F32"
    /\ accessor.dimensions = "Vec3"
    /\ ~accessor.normalized
    /\ accessor.data = <<<<0, 1, 2>>, <<1, 0, -1>>, <<0, 1, 2>>>>
    /\ converted.ok
    /\ converted.value.format = "Float32x3"
    /\ converted.value.elements =
           <<<<F32(0, 1), F32(1, 1), F32(2, 1)>>,
             <<F32(1, 1), F32(0, 1), F32(-1, 1)>>,
             <<F32(0, 1), F32(1, 1), F32(2, 1)>>>>


(***************************************************************************)
(* Claims about the normals of the meshes                                   *)
(***************************************************************************)
\* the registered primitive meshes with triangle-list topology
TriangleLists ==
    {l \in DOMAIN labeled_assets :
        /\ l.kind = "Mesh/Primitive"
        /\ labeled_assets[l].topology = "TriangleList"}

\* the load crashed while it computed the flat normals of a primitive
FlatNormalsPanicked ==
    /\ pc = "panicked"
    /\ ld.vertex_count_before # None
    /\ ld.vertex_count_after = None

\* C20: the mesh-building step ends for every primitive with triangle-list
\* topology with a non-empty normal attribute, loaded or computed, also
\* when the document's normal attribute was omitted, and where the vertices
\* were duplicated the vertex count after the step is at least the count
\* before.
C20_TriangleListNormals ==
    /\ ~FlatNormalsPanicked
    /\ \A l \in TriangleLists :
          /\ "Vertex_Normal" \in DOMAIN labeled_assets[l].attributes
          /\ Len(labeled_assets[l].attributes["Vertex_Normal"].elements) > 0
    /\ (ld.vertex_count_before # None /\ ld.vertex_count_after # None) =>
          ld.vertex_count_after >= ld.vertex_count_before


(***************************************************************************)
(* Claims about the colour space of the textures                            *)
(***************************************************************************)
\* the textures some declared material uses as normal, occlusion or
\* metallic-roughness map
ReferencedAsLinear ==
    {i \in 0..(Len(doc.textures) - 1) :
        \E k \in DOMAIN doc.materials :
            \/ doc.materials[k].normal_texture = i
            \/ doc.materials[k].occlusion_texture = i
            \/ doc.materials[k].metallic_roughness_texture = i}

\* the textures some declared material uses as base-colour or emissive map
ReferencedAsColor ==
    {i \in 0..(Len(doc.textures) - 1) :
        \E k \in DOMAIN doc.materials :
            \/ doc.materials[k].base_color_texture = i
            \/ doc.materials[k].emissive_texture = i}

\* C21: a texture is decoded as linear if and only if a declared material
\* references it as normal, occlusion or metallic-roughness map, whatever
\* else uses it; every other texture is decoded as sRGB.
C21_LinearIffReferenced ==
    /\ \A i \in 0..(Len(doc.textures) - 1) :
          texture_label(i) \in DOMAIN labeled_assets =>
              (~labeled_assets[texture_label(i)].is_srgb
                  <=> i \in ReferencedAsLinear)
    /\ \A k \in DOMAIN ld.results :
          ld.results[k].ok =>
              (~ld.results[k].value.texture.is_srgb
                  <=> ld.results[k].value.texture.image \in ReferencedAsLinear)

C21_Witness ==
    /\ pc = "done"
    /\ Len(doc.materials) = 2
    /\ 0 \in ReferencedAsLinear \cap ReferencedAsColor
    /\ 1 \notin ReferencedAsLinear
    /\ texture_label(0) \in DOMAIN labeled_assets
    /\ texture_label(1) \in DOMAIN labeled_assets
    /\ ~labeled_assets[texture_label(0)].is_srgb
    /\ labeled_assets[texture_label(1)].is_srgb


(***************************************************************************)
(* Claims about the buffers                                                 *)
(***************************************************************************)
\* what resolving a buffer fails with, NoError when it resolves
BufferFailure(k) ==
    CASE doc.buffers[k] = "bin" /\ ~doc.blob -> GltfError("MissingBlob", None)
      [] doc.buffers[k] = "data_uri_bad_mime" ->
             GltfError("BufferFormatUnsupported", None)
      [] doc.buffers[k] = "data_uri_bad_base64" ->
             GltfError("Base64Decode", None)
      [] doc.buffers[k] = "path_io_error" -> GltfError("AssetIoError", None)
      [] OTHER -> NoError

OffendingBuffers == {k \in DOMAIN doc.buffers : BufferFailure(k) # NoError}

FirstOffendingBuffer ==
    CHOOSE k \in OffendingBuffers : \A l \in OffendingBuffers : k <= l

\* the steps of the load after the buffers
AfterBuffers ==
    {"materials", "animations", "meshes", "attributes", "textures",
     "texture_scope", "skins", "scenes", "default", "done"}

\* C22: load_buffers returns one byte sequence per declared buffer in
\* declaration order, or fails at the first offending buffer with its error
\* (MissingBlob for a binary source without a blob, BufferFormatUnsupported
\* for a data URI of another MIME type), and then no later step of the load
\* runs.
C22_BuffersAllOrFirstError ==
    /\ (pc \in AfterBuffers) =>
          /\ OffendingBuffers = {}
          /\ Len(ld.buffer_data) = Len(doc.buffers)
          /\ \A k \in DOMAIN doc.buffers : ld.buffer_data[k] = k - 1
    /\ (doc.parse_ok /\ OffendingBuffers # {}) =>
          /\ pc \in {"load_entry", "buffers", "failed"}
          /\ pc = "failed" => err = BufferFailure(FirstOffendingBuffer)
          /\ ld = LoadEntry
          /\ labeled_assets = EmptyMap
          /\ default_asset = None
          /\ warnings = <<>>

C22_Witness ==
    /\ pc = "failed"
    /\ doc.buffers = <<"data_uri", "bin">>
    /\ ~doc.blob
    /\ doc.textures # <<>>
    /\ doc.meshes # <<>>
    /\ doc.scenes # <<>>
    /\ err = GltfError("MissingBlob", None)
    /\ labeled_assets = EmptyMap


(***************************************************************************)
(* Further claims about resolve_node_hierarchy                              *)
(***************************************************************************)
\* C23: the "must be a tree" warning is logged exactly once when a node is
\* still unresolved after the work queue is drained, and not at all
\* otherwise or earlier; the labels of the nodes still unresolved are absent
\* from the returned sequence.
C23_TreeWarningOnce ==
    /\ pc # "resolve_done" => rs.tree_warnings = 0
    /\ pc = "resolve_done" =>
          /\ rs.empty_children = <<>>
          /\ rs.tree_warnings =
                 IF DOMAIN rs.unprocessed_nodes # {} THEN 1 ELSE 0
          /\ \A i \in DOMAIN rs.unprocessed_nodes :
                \A k \in DOMAIN result :
                    result[k].label # rs.unprocessed_nodes[i].label

\* two nodes were left unresolved, another one was returned
C23_Witness ==
    /\ pc = "resolve_done"
    /\ Cardinality(DOMAIN rs.unprocessed_nodes) = 2
    /\ rs.tree_warnings = 1
    /\ result # <<>>


\* the nodes whose declared child list holds c
Listers(c) == {i \in 0..(NodeCount - 1) : c \in DeclaredSet(i)}

\* the nodes listed as a child by two different nodes
SharedChildren ==
    {c \in 0..(NodeCount - 1) : Cardinality(Listers(c)) >= 2}

\* the lister declared last
LastLister(c) == CHOOSE i \in Listers(c) : \A j \in Listers(c) : j <= i

\* the nodes that have i among their descendants
Ancestors(i) == {j \in 0..(NodeCount - 1) : i \in Descendants(j)}

\* the child sequence built for node p so far, resolved or not
ChildrenBuilt(p) ==
    IF p \in DOMAIN rs.nodes THEN rs.nodes[p].node.children
    ELSE rs.unprocessed_nodes[p].node.children

\* how often node c was attached to node p
TimesAttached(c, p) ==
    Cardinality({k \in DOMAIN ChildrenBuilt(p) : ChildrenBuilt(p)[k].data = c})

\* C24: a node listed as a child by two different nodes does not abort the
\* resolution; once resolved it is attached to the lister declared last,
\* once, and to no other node; every other lister keeps it in its pending
\* set and is absent from the output together with its ancestors.
C24_SharedChildLastParent ==
    /\ pc # "panicked"
    /\ pc = "resolve_done" =>
          \A c \in SharedChildren :
              /\ \A p \in 0..(NodeCount - 1) :
                    TimesAttached(c, p) =
                        IF p = LastLister(c) /\ c \in DOMAIN rs.nodes
                        THEN 1 ELSE 0
              /\ \A l \in Listers(c) \ {LastLister(c)} :
                    /\ l \in DOMAIN rs.unprocessed_nodes
                    /\ c \in rs.unprocessed_nodes[l].children
                    /\ \A a \in Ancestors(l) \cup {l} : a \notin ResultLabels

\* a leaf shared by two nodes was resolved: the later lister was returned
\* with it, the earlier one was dropped
C24_Witness ==
    /\ pc = "resolve_done"
    /\ NodeCount = 3
    /\ Declared(0) = <<2>>
    /\ Declared(1) = <<2>>
    /\ ResultLabels = {1, 2}
    /\ TimesAttached(2, 1) = 1
    /\ TimesAttached(2, 0) = 0


\* the node returned for index i
ResolvedNode(i) ==
    LET k == CHOOSE k \in DOMAIN result : result[k].label.i = i
    IN result[k].node

\* C25: in the output every entry of a resolved node's child sequence is a
\* copy of that child as fully resolved, holding the child's complete
\* resolved subtree, and the child sequence holds exactly one entry for each
\* distinct declared child index.
C25_ChildrenResolvedCopies ==
    pc = "resolve_done" =>
        \A i \in ResultLabels :
            LET children == ResolvedNode(i).children
            IN /\ \A k \in DOMAIN children :
                     /\ children[k].data \in ResultLabels
                     /\ children[k] = ResolvedNode(children[k].data)
               /\ {children[k].data : k \in DOMAIN children} = DeclaredSet(i)
               /\ Len(children) = Cardinality(DeclaredSet(i))

\* a chain of depth two was resolved: the root holds its child with the
\* grandchild in it
C25_Witness ==
    /\ pc = "resolve_done"
    /\ \E i \in ResultLabels :
          \E k \in DOMAIN ResolvedNode(i).children :
              /\ ResolvedNode(i).children[k].children # <<>>
              /\ ResolvedNode(i).children[k] =
                     ResolvedNode(ResolvedNode(i).children[k].data)
    /\ \E i \in ResultLabels :
          Len(Declared(i)) > Cardinality(DeclaredSet(i))


\* the declared child indices of node i in the order of its child sequence
ChildOrder(i) ==
    [k \in DOMAIN ResolvedNode(i).children |-> ResolvedNode(i).children[k].data]

\* C26: after resolution the child sequence of every resolved node lists
\* its children in the order of the node's declared child-index list, for
\* every tree shape.
C26_DeclaredChildOrder ==
    (pc = "resolve_done" /\ Forest) =>
        \A i \in ResultLabels : ChildOrder(i) = Declared(i)


(***************************************************************************)
(* Claims about the formats of the vertex attributes                        *)
(***************************************************************************)
\* the step is one pass of the attribute loop
AttributeStep ==
    /\ pc = "attributes"
    /\ Len(ld'.attr_log) = Len(ld.attr_log) + 1

\* the warning logged by the step is the format warning
FormatWarned ==
    /\ Len(warnings') = Len(warnings) + 1
    /\ warnings'[Len(warnings')].kind = "Vertex attribute has format but expected"

TextureLabels(assets) == {l \in DOMAIN assets : l.kind = "Texture"}

\* C28: in the concurrent texture path no texture is registered until every
\* spawned decode task has completed; the tasks change neither the resolved
\* buffers, the linear-texture set nor the label table; all registrations
\* are made by the orchestrator after the join.
C28_RegistrationAfterJoin ==
    /\ [](pc = "texture_scope" => TextureLabels(labeled_assets) = {})
    /\ [][(pc = "texture_scope" /\ ld'.tasks # ld.tasks) =>
            /\ ld'.buffer_data = ld.buffer_data
            /\ ld'.linear_textures = ld.linear_textures
            /\ labeled_assets' = labeled_assets]_vars
    /\ [][(/\ ~SerialTextures(doc)
           /\ TextureLabels(labeled_assets') # TextureLabels(labeled_assets)) =>
            /\ pc = "texture_scope"
            /\ ld.tasks = {}
            /\ Len(ld.results) = Len(doc.textures)
            /\ pc' = "skins"]_vars

\* three tasks have completed, two of them with an image, and nothing is
\* registered yet
C28_Witness ==
    /\ pc = "texture_scope"
    /\ ld.tasks = {}
    /\ Len(ld.results) = 3
    /\ Cardinality({k \in DOMAIN ld.results : ld.results[k].ok}) = 2
    /\ TextureLabels(labeled_assets) = {}


(***************************************************************************)
(* Claims about the default material                                        *)
(***************************************************************************)
\* the scenes that reach a node whose mesh has a primitive without a
\* material reference
ScenesWithoutMaterial ==
    {k \in 0..(Len(doc.scenes) - 1) :
        /\ Spawned(doc, doc.scenes[k + 1], Len(doc.nodes) + 1).ok
        /\ \E n \in SpawnedInScene(k) :
              /\ doc.nodes[n + 1].mesh # None
              /\ \E j \in DOMAIN doc.meshes[doc.nodes[n + 1].mesh + 1] :
                    doc.meshes[doc.nodes[n + 1].mesh + 1][j].material = None}

\* C29: the default material is registered at most once per load, under
\* the label MaterialDefault, when scene assembly reaches a primitive
\* without a material reference; later such primitives reuse the label; it
\* is never registered when no scene reaches such a primitive.
C29_DefaultMaterialOnce ==
    /\ ld.default_material_loads <= 1
    /\ Label("MaterialDefault", None) \in DOMAIN labeled_assets
          <=> ld.default_material_loads = 1
    /\ pc \notin {"default", "done", "panicked"} =>
          ld.default_material_loads = 0
    /\ pc \in {"default", "done"} =>
          (ld.default_material_loads = 1 <=> ScenesWithoutMaterial # {})

\* two scenes reached a primitive without a material and a third scene
\* reached both: the default material was registered once
C29_Witness ==
    /\ pc = "done"
    /\ Cardinality(ScenesWithoutMaterial) = 3
    /\ ld.default_material_loads = 1
    /\ Label("MaterialDefault", None) \in DOMAIN labeled_assets
    /\ Label("Material", 0) \in DOMAIN labeled_assets


(***************************************************************************)
(* Claims about the termination of resolve_node_hierarchy                   *)
(***************************************************************************)
\* C30: for every node list (duplicates within a list, self-references,
\* out-of-range indices, shared children, cycles) resolve_node_hierarchy
\* terminates and no assertion or unwrap fails: each index is dequeued at
\* most once, every dequeued index is still unprocessed with an empty
\* pending set, and its recorded parent is still unprocessed and holds it
\* as pending.
C30_TerminatesWithoutPanic ==
    /\ <>(pc = "resolve_done")
    /\ [](/\ pc # "panicked"
          /\ ~rs.panicked
          /\ \A k, l \in DOMAIN rs.dequeued :
                rs.dequeued[k] = rs.dequeued[l] => k = l)
    /\ [][(pc = "resolve_loop" /\ rs.empty_children # <<>>) =>
            LET index == Head(rs.empty_children)
            IN /\ index \in DOMAIN rs.unprocessed_nodes
               /\ rs.unprocessed_nodes[index].children = {}
               /\ rs.parents[index] # None =>
                     /\ rs.parents[index] # index
                     /\ rs.parents[index] \in DOMAIN rs.unprocessed_nodes
                     /\ index \in
                            rs.unprocessed_nodes[rs.parents[index]].children]_vars

\* a list with a duplicate, a self-reference and an out-of-range index has
\* been resolved
C30_Witness ==
    /\ pc = "resolve_done"
    /\ ~rs.panicked
    /\ \E i \in 0..(NodeCount - 1) : Len(Declared(i)) > Cardinality(DeclaredSet(i))
    /\ \E i \in 0..(NodeCount - 1) : i \in DeclaredSet(i) \/ NodeCount \in DeclaredSet(i)
    /\ Len(rs.dequeued) >= 2

====
